---- MODULE Spec2Model ----
(***************************************************************************)
(* SnapTriage: the pending-change merge algorithm, the sync engine's pull  *)
(* path (syncRepo) and the triage write path (PATCH /api/issues/:id and    *)
(* pushBatchChanges), modelled from the TypeScript sources.                *)
(***************************************************************************)
EXTENDS Integers, Sequences, FiniteSets, TLC

(***************************************************************************)
(* Bounds of the model.                                                    *)
(***************************************************************************)
\* longest add list plus remove list of one labels / assignees payload
MaxLen == 2
\* number of add/remove operations of the net-effect specification
MaxOps == 4
\* number of syncRepo calls of one behaviour
MaxCalls == 2
\* latest clock reading
MaxClock == 2
\* most issues one fetchIssues result lists
MaxFetched == 2

(***************************************************************************)
(* Values.  A JavaScript `undefined` (absent field) and `null` are kept    *)
(* apart from every proper value.                                          *)
(***************************************************************************)
Undefined == "undefined"
Null == "null"
Labels == {"bug", "urgent"}
Usernames == {"alice"}
PriorityValues == {"1", "2"}
SnoozeValues == {"2026-03-01T09:00:00.000Z"}
DismissedValues == {"true", "false"}
StateValues == {"open", "closed"}

\* an absent labels / assignees field
NoChange == [present |-> FALSE, add |-> <<>>, remove |-> <<>>]

RECURSIVE SeqsUpTo(_, _)
\* all sequences over S of length at most n
SeqsUpTo(S, n) ==
  IF n = 0 THEN {<<>>}
  ELSE LET shorter == SeqsUpTo(S, n - 1)
       IN shorter \cup {Append(s, x) : s \in {t \in shorter : Len(t) = n - 1}, x \in S}

\* the present values of a labels / assignees field: add?: string[], remove?: string[]
\* (an absent add or remove list is read as [] by the code: `?? []`)
SetChanges(S) ==
  {[present |-> TRUE, add |-> a, remove |-> r] :
     a \in SeqsUpTo(S, MaxLen), r \in SeqsUpTo(S, MaxLen)}

BoundedSetChanges(S) == {c \in SetChanges(S) : Len(c.add) + Len(c.remove) <= MaxLen}

\* the payload with no field
EmptyPayload ==
  [priority |-> Undefined, snoozedUntil |-> Undefined, dismissed |-> Undefined,
   state |-> Undefined, labels |-> NoChange, assignees |-> NoChange]

\* TriagePayload as the callers build it: one field per triage action
\* (setPriority, snoozeIssue, unsnoozeIssue, dismissIssue, a state change, a labels
\* change and an assignees change with arbitrary add and remove lists), or no field
TriagePayloads ==
  {EmptyPayload}
  \cup {[EmptyPayload EXCEPT !.priority = v] : v \in {Null} \cup PriorityValues}
  \cup {[EmptyPayload EXCEPT !.snoozedUntil = v] : v \in {Null} \cup SnoozeValues}
  \cup {[EmptyPayload EXCEPT !.dismissed = v] : v \in DismissedValues}
  \cup {[EmptyPayload EXCEPT !.state = v] : v \in StateValues}
  \cup {[EmptyPayload EXCEPT !.labels = c] : c \in BoundedSetChanges(Labels)}
  \cup {[EmptyPayload EXCEPT !.assignees = c] : c \in BoundedSetChanges(Usernames)}

(***************************************************************************)
(* JavaScript Set over an array: insertion-ordered, no duplicates.         *)
(***************************************************************************)
SetHas(s, x) == \E i \in 1..Len(s) : s[i] = x

SetAdd(s, x) == IF SetHas(s, x) THEN s ELSE Append(s, x)

SetDelete(s, x) == SelectSeq(s, LAMBDA y : y # x)

RECURSIVE SetNew(_)
\* new Set(array)
SetNew(arr) ==
  IF arr = <<>> THEN <<>>
  ELSE SetAdd(SetNew(SubSeq(arr, 1, Len(arr) - 1)), arr[Len(arr)])

Elements(s) == {s[i] : i \in 1..Len(s)}

(***************************************************************************)
(* mergePendingChanges (features/triage/types.ts).                         *)
(***************************************************************************)
RECURSIVE AddLoopKeepsRemoval(_, _, _)
\* AddLoop without `removeSet.delete(l)`
AddLoopKeepsRemoval(addSet, removeSet, items) ==
  IF items = <<>> THEN [add |-> addSet, remove |-> removeSet]
  ELSE AddLoopKeepsRemoval(SetAdd(addSet, Head(items)), removeSet, Tail(items))

RECURSIVE AddLoop(_, _, _)
\* for (const l of incoming.add ?? []) { removeSet.delete(l); addSet.add(l); }
AddLoop(addSet, removeSet, items) ==
  IF items = <<>> THEN [add |-> addSet, remove |-> removeSet]
  ELSE AddLoop(SetAdd(addSet, Head(items)), SetDelete(removeSet, Head(items)), Tail(items))

RECURSIVE RemoveLoopRecordsRemoval(_, _, _)
\* RemoveLoop that also records the removal of an item it cancels from addSet
RemoveLoopRecordsRemoval(addSet, removeSet, items) ==
  IF items = <<>> THEN [add |-> addSet, remove |-> removeSet]
  ELSE RemoveLoopRecordsRemoval(SetDelete(addSet, Head(items)),
                                SetAdd(removeSet, Head(items)), Tail(items))

RECURSIVE RemoveLoop(_, _, _)
\* for (const l of incoming.remove ?? []) { if (addSet.has(l)) addSet.delete(l); else removeSet.add(l); }
RemoveLoop(addSet, removeSet, items) ==
  IF items = <<>> THEN [add |-> addSet, remove |-> removeSet]
  ELSE IF SetHas(addSet, Head(items))
       THEN RemoveLoop(SetDelete(addSet, Head(items)), removeSet, Tail(items))
       ELSE RemoveLoop(addSet, SetAdd(removeSet, Head(items)), Tail(items))

\* the body of `if (incoming.labels) {...}` and of `if (incoming.assignees) {...}`
MergeSetField(prevField, inc) ==
  IF ~inc.present THEN prevField
  ELSE LET prev == IF prevField.present THEN prevField ELSE [add |-> <<>>, remove |-> <<>>]
           afterAdd == AddLoop(SetNew(prev.add), SetNew(prev.remove), inc.add)
           afterRemove == RemoveLoop(afterAdd.add, afterAdd.remove, inc.remove)
       IN [present |-> TRUE, add |-> afterRemove.add, remove |-> afterRemove.remove]

\* MergeScalar with `incoming.f != null` for `incoming.f !== undefined`
MergeScalarNullish(prev, inc) == IF inc # Undefined /\ inc # Null THEN inc ELSE prev

\* if (incoming.f !== undefined) merged.f = incoming.f
MergeScalar(prev, inc) == IF inc # Undefined THEN inc ELSE prev

mergePendingChanges(existingChanges, incomingPayload) ==
  [priority |-> MergeScalar(existingChanges.priority, incomingPayload.priority),
   snoozedUntil |-> MergeScalar(existingChanges.snoozedUntil, incomingPayload.snoozedUntil),
   dismissed |-> MergeScalar(existingChanges.dismissed, incomingPayload.dismissed),
   state |-> MergeScalar(existingChanges.state, incomingPayload.state),
   labels |-> MergeSetField(existingChanges.labels, incomingPayload.labels),
   assignees |-> MergeSetField(existingChanges.assignees, incomingPayload.assignees)]

\* payload builders of features/triage/triage-actions.ts
addLabel(label) ==
  [EmptyPayload EXCEPT !.labels = [present |-> TRUE, add |-> <<label>>, remove |-> <<>>]]

removeLabel(label) ==
  [EmptyPayload EXCEPT !.labels = [present |-> TRUE, add |-> <<>>, remove |-> <<label>>]]

\* the local mirror of a label change: add every item of add, then delete every
\* item of remove (sync-engine pushBatchChanges, route.ts PATCH live branch)
ApplySetChange(current, change) == (current \cup Elements(change.add)) \ Elements(change.remove)

(***************************************************************************)
(* State.                                                                  *)
(***************************************************************************)
VARIABLES
  acc,           \* the pending-change accumulator (PendingChanges)
  existing,      \* first argument of the last mergePendingChanges call
  incoming,      \* second argument of the last mergePendingChanges call
  mergePhase,    \* "idle" | "merged": a merge result not yet taken over by the caller
  upstream,      \* label set of the issue at the origin before any staged operation
  refLabels,     \* the operations applied one by one to upstream (set model)
  opCount,       \* operations merged so far (net-effect specification)
  now,           \* the server clock (new Date())
  lastSyncedAt,  \* repos.lastSyncedAt per repository: <<>> (null) or <<time>>
  issueRows,     \* the issue table: a set of rows
  nextIssueId,   \* the next generated issues.id
  syncLog,       \* the sync_log table: log id -> row
  call,          \* the syncRepo calls: position and local variables of each
  syncMode,      \* repos.syncMode per repository: "live" | "batch"
  triageRows,    \* the triage_state table: a set of rows
  nextTriageId,  \* the next generated triage_state.id
  lastOp,        \* the last request served: its input, response and provider calls
  syncEnabled,   \* repos.syncEnabled per repository
  sweep,         \* the syncAllRepos call: position and local variables
  views,         \* the browser's query cache: the data of each ["issues", ...] query
  undoStack,     \* useUndoStore's stack
  mutationId,    \* the browser's mutation cache: the id of the last mutation built
  mutations,     \* the browser's mutation cache: the triage mutations not yet settled
  toasts,        \* the notifications shown: errors, "Change staged", Undo buttons
  undoLog,       \* history of the undo store: the actions pushed and popped, in order
  gh,            \* the ghFetch call: position, responses seen, sends made, time slept
  origin,        \* the issues of the repository at the origin: id -> <<>> or <<issue>>
  pageLog,       \* per syncRepo call: what its fetchIssues asked for and how it ended
  updateCall,    \* the updateIssue call: provider, changes, position, requests made
  pushCall       \* the pushBatchChanges call in flight: position and local variables

mergeVars == <<acc, existing, incoming, mergePhase>>
netVars == <<upstream, refLabels, opCount>>
syncVars == <<now, lastSyncedAt, issueRows, nextIssueId, syncLog, call>>
triageVars == <<syncMode, triageRows, nextTriageId, lastOp>>
sweepVars == <<syncEnabled, sweep>>
clientVars == <<views, undoStack, mutationId, mutations, toasts, undoLog>>
originVars == <<gh, origin, pageLog, updateCall>>
raceVars == <<pushCall>>
vars == <<mergeVars, netVars, syncVars, triageVars, sweepVars, clientVars, originVars,
          raceVars>>

(***************************************************************************)
(* The relational store and the syncRepo calls at rest.                    *)
(***************************************************************************)
Users == {"u1", "u2"}
RepoIds == {"r1", "r2", "r3"}
\* repos.userId: each repository is owned by one user
repoUser == [r \in RepoIds |-> IF r = "r2" THEN "u2" ELSE "u1"]
\* OwnsRepo that finds the repository whoever asks
OwnsRepoWhoeverAsks(repoId, userId) == TRUE

\* select().from(repos).where(id = repoId and userId = userId) returns a row
OwnsRepo(repoId, userId) == repoUser[repoId] = userId

\* one repository of each user
OneRepoPerUser == {"r1", "r2"}
\* accounts.access_token per user (OAuth sign-in), <<>> when there is no row
oauthToken == [u \in Users |-> IF u = "u1" THEN <<"gho_u1">> ELSE <<>>]
\* accessTokens.token per user (PAT sign-in), <<>> when there is no row
patToken == [u \in Users |-> <<>>]

\* the two steps of getProviderToken: the access token of the OAuth account if there
\* is one (oauth), else the token of the PAT row if there is one (pat), else null
TokenOf(oauth, pat) ==
  IF oauth # <<>> THEN oauth
  ELSE IF pat # <<>> THEN pat
  ELSE <<>>

\* getProviderToken: the OAuth access token, else the personal token, else null (<<>>)
getProviderToken(userId) == TokenOf(oauthToken[userId], patToken[userId])

Calls == 1..MaxCalls
ProviderIssueIds == {"101", "102"}
\* the origin's update times: behind and ahead of the server clock (clock skew)
OriginTimes == {0, MaxClock + 1}
\* the origin-native sequence number of an issue
issueNumber == [i \in ProviderIssueIds |-> IF i = "101" THEN 1 ELSE 2]
\* ProviderIssue: its key, number, update time, state, labels and assignees (title,
\* body, author and url travel with updatedAt); issue "101" is seen before and after
\* an edit at the origin, issue "102" after its edit
ProviderIssues ==
  {i \in [providerIssueId : ProviderIssueIds, number : {1, 2}, updatedAt : OriginTimes,
          state : {"open"}, labels : {<<>>}, assignees : {<<>>}] :
     /\ i.number = issueNumber[i.providerIssueId]
     /\ i.providerIssueId = "102" => i.updatedAt > MaxClock}

\* what the origin may answer to fetchIssues(owner, name, token, since): with since
\* given, only issues updated at or after it
FetchResults(since) ==
  SeqsUpTo({i \in ProviderIssues : since = <<>> \/ i.updatedAt >= since[1]}, MaxFetched)

\* messages of the errors a storage or network call raises
StorageError == "SQLITE_BUSY"
NetworkError == "fetch failed"

\* a syncRepo call that has not started
IdleCall ==
  [pc |-> "idle", repoId |-> "", userId |-> "", repo |-> <<>>, since |-> <<>>,
   fetched |-> <<>>, idx |-> 0, found |-> <<>>, err |-> "", status |-> "",
   issuesFetched |-> 0, error |-> "", markerBefore |-> <<>>,
   raisedIn |-> "", fetchCalls |-> 0]

\* no request served yet
NoOp ==
  [kind |-> "none", userId |-> "", payload |-> EmptyPayload, handledAs |-> "",
   response |-> "",
   sent |-> <<>>, outcomes |-> <<>>, targets |-> <<>>, processed |-> <<>>, pushed |-> 0, failed |-> 0]

\* a syncAllRepos call that has not started
IdleSweep == [pc |-> "idle", userId |-> "", userRepos |-> <<>>, idx |-> 0, results |-> <<>>]

SweepAtRest ==
  /\ syncEnabled = [r \in RepoIds |-> TRUE]
  /\ sweep = IdleSweep

\* the query keys of the issue lists the browser shows, one per state filter
ViewKeys == {"open", "closed"}

\* a query that has no data yet (query.state.data is undefined)
NoData == [loaded |-> FALSE, list |-> <<>>]

\* no notification was shown
NoToasts == [error |-> 0, staged |-> 0, undo |-> {}]

\* a browser that has not opened the inbox
ClientAtRest ==
  /\ views = [k \in ViewKeys |-> NoData]
  /\ undoStack = <<>>
  /\ mutationId = 0
  /\ mutations = {}
  /\ toasts = NoToasts
  /\ undoLog = <<>>

\* a response of the origin: status and the two rate-limit headers (null when absent)
NoResponse == [status |-> 0, remaining |-> Null, resetAt |-> Null]

\* a ghFetch call that has not started
IdleFetch ==
  [pc |-> "idle", first |-> NoResponse, dateNow |-> 0, waitMs |-> [nan |-> FALSE, value |-> 0], slept |-> 0,
   sends |-> 0, result |-> NoResponse]

\* a syncRepo call whose fetchIssues has not run
NoPages == [asked |-> FALSE, since |-> <<>>, failedPage |-> 0, raised |-> FALSE]

\* an updateIssue call that has not started
IdleUpdate ==
  [pc |-> "idle", provider |-> "", changes |-> EmptyPayload, idx |-> 0, params |-> {},
   requests |-> <<>>]

OriginAtRest ==
  /\ gh = IdleFetch
  /\ origin = [pid \in ProviderIssueIds |-> <<>>]
  /\ pageLog = [c \in Calls |-> NoPages]
  /\ updateCall = IdleUpdate

\* a pushBatchChanges call that has not started
IdlePush ==
  [pc |-> "idle", userId |-> "", pendingRows |-> <<>>, idx |-> 0, issue |-> <<>>,
   sent |-> <<>>, pushed |-> 0, failed |-> 0, staged |-> <<>>]

RaceAtRest ==
  /\ pushCall = IdlePush

TriageAtRest ==
  /\ syncMode = [r \in RepoIds |-> "live"]
  /\ triageRows = {}
  /\ nextTriageId = 1
  /\ lastOp = NoOp

SyncAtRest ==
  /\ now = 0
  /\ lastSyncedAt = [r \in RepoIds |-> <<>>]
  /\ issueRows = {}
  /\ nextIssueId = 1
  /\ syncLog = <<>>
  /\ call = [c \in Calls |-> IdleCall]

(***************************************************************************)
(* Merge specification: payloads merged one after another into an          *)
(* initially empty accumulator.                                            *)
(***************************************************************************)
MergeInit ==
  /\ acc = EmptyPayload
  /\ existing = EmptyPayload
  /\ incoming = EmptyPayload
  /\ mergePhase = "idle"
  /\ upstream = {}
  /\ refLabels = {}
  /\ opCount = 0
  /\ SyncAtRest
  /\ TriageAtRest
  /\ RaceAtRest
  /\ OriginAtRest
  /\ ClientAtRest
  /\ SweepAtRest

\* one call merged = mergePendingChanges(existing, incoming)
Merge(p) ==
  /\ mergePhase = "idle"
  /\ existing' = acc
  /\ incoming' = p
  /\ acc' = mergePendingChanges(acc, p)
  /\ mergePhase' = "merged"
  /\ UNCHANGED <<netVars, syncVars, triageVars, sweepVars, clientVars, originVars, raceVars>>

\* the caller keeps the result as the new accumulator (route.ts: pendingChanges: merged)
StoreMerged ==
  /\ mergePhase = "merged"
  /\ mergePhase' = "idle"
  /\ existing' = EmptyPayload
  /\ incoming' = EmptyPayload
  /\ UNCHANGED <<acc, netVars, syncVars, triageVars, sweepVars, clientVars, originVars, raceVars>>

MergeNext ==
  \/ \E p \in TriagePayloads : Merge(p)
  \/ StoreMerged

MergeSpec == MergeInit /\ [][MergeNext]_vars

(***************************************************************************)
(* Net-effect specification: add and remove operations on single labels,   *)
(* merged in order into an initially empty accumulator, next to the same   *)
(* operations applied one by one to the issue's upstream label set.        *)
(***************************************************************************)
NetInit ==
  /\ acc = EmptyPayload
  /\ existing = EmptyPayload
  /\ incoming = EmptyPayload
  /\ mergePhase = "idle"
  /\ upstream \in SUBSET Labels
  /\ refLabels = upstream
  /\ opCount = 0
  /\ SyncAtRest
  /\ TriageAtRest
  /\ RaceAtRest
  /\ OriginAtRest
  /\ ClientAtRest
  /\ SweepAtRest

\* one staged operation: the payload is merged, the reference set takes it at once
Stage(p) ==
  /\ opCount < MaxOps
  /\ existing' = acc
  /\ incoming' = p
  /\ acc' = mergePendingChanges(acc, p)
  /\ refLabels' = ApplySetChange(refLabels, p.labels)
  /\ opCount' = opCount + 1
  /\ UNCHANGED <<mergePhase, upstream, syncVars, triageVars, sweepVars, clientVars, originVars, raceVars>>

StageAddLabel == \E l \in Labels : Stage(addLabel(l))

StageRemoveLabel == \E l \in Labels : Stage(removeLabel(l))

NetNext == StageAddLabel \/ StageRemoveLabel

NetSpec == NetInit /\ [][NetNext]_vars

(***************************************************************************)
(* syncRepo (features/sync/sync-engine.ts), one action per await point.    *)
(* Every storage and network call either completes or raises.              *)
(***************************************************************************)
Finished == {"returned", "threw", "over"}

\* an exception inside the try block: control goes to the catch clause
Raise(c, step, message) ==
  call' = [call EXCEPT ![c].pc = "catch", ![c].err = message, ![c].raisedIn = step]

\* an exception outside the try block, or in the catch clause: it reaches the caller
Escape(c, step) ==
  call' = [call EXCEPT ![c].pc = "threw", ![c].raisedIn = step]

\* return { repoId, status, issuesFetched, error? }
Return(c, status, count, error) ==
  call' = [call EXCEPT ![c].pc = "returned", ![c].status = status,
                       ![c].issuesFetched = count, ![c].error = error]

\* the rows select().from(issues).where(repoId, providerIssueId) returns, by row id
RECURSIVE SortedIds(_)
SortedIds(ids) ==
  IF ids = {} THEN <<>>
  ELSE LET m == CHOOSE x \in ids : \A y \in ids : x <= y
       IN <<m>> \o SortedIds(ids \ {m})

SelectIssues(repoId, providerIssueId) ==
  SortedIds({row.id : row \in {q \in issueRows :
                q.repoId = repoId /\ q.providerIssueId = providerIssueId}})

\* what is left of a call once its result has been taken: nothing but that it is
\* over (locals and result are out of scope)
Outcome(k) == IF k.pc \in Finished THEN [IdleCall EXCEPT !.pc = "over"] ELSE k

\* syncRepo(repoId, userId) is called; calls run one after another
StartSync(c, repoId, userId) ==
  /\ call[c].pc = "idle"
  /\ \A d \in Calls : d < c => call[d].pc \in Finished
  /\ call' = [d \in Calls |->
               IF d = c
               THEN [IdleCall EXCEPT !.pc = "lookup", !.repoId = repoId, !.userId = userId,
                                     !.markerBefore = lastSyncedAt[repoId]]
               ELSE Outcome(call[d])]
  /\ UNCHANGED <<now, lastSyncedAt, issueRows, nextIssueId, syncLog>>
  /\ UNCHANGED <<mergeVars, netVars, triageVars, sweepVars, clientVars, originVars, raceVars>>

\* select().from(repos).where(id = repoId and userId = userId); if (!repo) return failed
LookupRepo(c) ==
  /\ call[c].pc = "lookup"
  /\ \/ Escape(c, "lookup")
     \/ /\ ~OwnsRepo(call[c].repoId, call[c].userId)
        /\ Return(c, "failed", 0, "Repo not found")
     \/ /\ OwnsRepo(call[c].repoId, call[c].userId)
        /\ call' = [call EXCEPT ![c].pc = "logStart", ![c].repo = lastSyncedAt[call[c].repoId]]
  /\ UNCHANGED <<now, lastSyncedAt, issueRows, nextIssueId, syncLog>>
  /\ UNCHANGED <<mergeVars, netVars, triageVars, sweepVars, clientVars, originVars, raceVars>>

\* insert(syncLog).values({ id: logId, repoId, status: "started" })
InsertSyncLog(c) ==
  /\ call[c].pc = "logStart"
  /\ \/ /\ Escape(c, "logStart")
        /\ UNCHANGED syncLog
     \/ /\ syncLog' = syncLog @@ (c :> [repoId |-> call[c].repoId, status |-> "started",
                                       issuesFetched |-> 0, error |-> ""])
        /\ call' = [call EXCEPT ![c].pc = "token"]
  /\ UNCHANGED <<now, lastSyncedAt, issueRows, nextIssueId>>
  /\ UNCHANGED <<mergeVars, netVars, triageVars, sweepVars, clientVars, originVars, raceVars>>

\* const token = await getProviderToken(...); if (!token) throw new Error(...)
ResolveToken(c) ==
  /\ call[c].pc = "token"
  /\ \/ Raise(c, "token", StorageError)
     \/ /\ getProviderToken(call[c].userId) = <<>>
        /\ Raise(c, "token", "No github token found")
     \/ /\ getProviderToken(call[c].userId) # <<>>
        /\ call' = [call EXCEPT ![c].pc = "fetch"]
  /\ UNCHANGED <<now, lastSyncedAt, issueRows, nextIssueId, syncLog>>
  /\ UNCHANGED <<mergeVars, netVars, triageVars, sweepVars, clientVars, originVars, raceVars>>

\* since = repo.lastSyncedAt ? new Date(repo.lastSyncedAt) : undefined;
\* fetched = await provider.fetchIssues(owner, name, token, since)
FetchIssues(c) ==
  /\ call[c].pc = "fetch"
  /\ \/ call' = [call EXCEPT ![c].pc = "catch", ![c].err = NetworkError,
                               ![c].raisedIn = "fetch", ![c].since = call[c].repo,
                               ![c].fetchCalls = 1]
     \/ \E list \in FetchResults(call[c].repo) :
          call' = [call EXCEPT ![c].pc = IF list = <<>> THEN "marker" ELSE "select",
                               ![c].since = call[c].repo, ![c].fetched = list, ![c].idx = 1,
                               ![c].fetchCalls = 1]
  /\ UNCHANGED <<now, lastSyncedAt, issueRows, nextIssueId, syncLog>>
  /\ UNCHANGED <<mergeVars, netVars, triageVars, sweepVars, clientVars, originVars, raceVars>>

\* existing = await select().from(issues).where(repoId, providerIssueId)
SelectExisting(c) ==
  /\ call[c].pc = "select"
  /\ \/ Raise(c, "upsert", StorageError)
     \/ call' = [call EXCEPT ![c].pc = "write",
                    ![c].found = SelectIssues(call[c].repoId,
                                              call[c].fetched[call[c].idx].providerIssueId)]
  /\ UNCHANGED <<now, lastSyncedAt, issueRows, nextIssueId, syncLog>>
  /\ UNCHANGED <<mergeVars, netVars, triageVars, sweepVars, clientVars, originVars, raceVars>>

\* update(issues).set({..., state, labels, assignees, updatedAt}).where(id =
\* existing[0].id); fetchedAt, which no code reads, travels with updatedAt
UpdateIssueRow(rows, id, issue) ==
  {IF row.id = id
   THEN [row EXCEPT !.state = issue.state, !.labels = issue.labels,
                    !.assignees = issue.assignees, !.updatedAt = issue.updatedAt]
   ELSE row : row \in rows}

\* insert(issues).values({ repoId, number, ..., providerIssueId, updatedAt })
InsertIssueRow(rows, id, repoId, issue) ==
  rows \cup {[id |-> id, repoId |-> repoId, providerIssueId |-> issue.providerIssueId,
              number |-> issue.number, state |-> issue.state, labels |-> issue.labels,
              assignees |-> issue.assignees, updatedAt |-> issue.updatedAt]}

\* UpsertIssueRow without the look at `existing`: every fetched issue is inserted
UpsertAlwaysInserts(rows, found, id, repoId, issue) ==
  InsertIssueRow(rows, id, repoId, issue)

\* if (existing.length > 0) update else insert
UpsertIssueRow(rows, found, id, repoId, issue) ==
  IF Len(found) > 0 THEN UpdateIssueRow(rows, found[1], issue)
  ELSE InsertIssueRow(rows, id, repoId, issue)

\* the update or insert of one fetched issue, then the next issue of the loop
WriteIssue(c) ==
  /\ call[c].pc = "write"
  /\ \/ /\ Raise(c, "upsert", StorageError)
        /\ UNCHANGED <<issueRows, nextIssueId>>
     \/ /\ issueRows' = UpsertIssueRow(issueRows, call[c].found, nextIssueId, call[c].repoId,
                                       call[c].fetched[call[c].idx])
        /\ nextIssueId' = IF Len(call[c].found) > 0 THEN nextIssueId ELSE nextIssueId + 1
        /\ call' = [call EXCEPT ![c].pc = IF call[c].idx < Len(call[c].fetched)
                                          THEN "select" ELSE "marker",
                                ![c].idx = call[c].idx + 1, ![c].found = <<>>]
  /\ UNCHANGED <<now, lastSyncedAt, syncLog>>
  /\ UNCHANGED <<mergeVars, netVars, triageVars, sweepVars, clientVars, originVars, raceVars>>

RECURSIVE MaxUpdatedAt(_)
MaxUpdatedAt(list) ==
  IF list = <<>> THEN 0
  ELSE LET rest == MaxUpdatedAt(Tail(list))
       IN IF Head(list).updatedAt > rest THEN Head(list).updatedAt ELSE rest

\* MarkerValue taken from the newest fetched issue instead of the clock
MarkerFromIssues(c) == MaxUpdatedAt(call[c].fetched)

\* the value update(repos).set({ lastSyncedAt: ... }) writes: new Date()
MarkerValue(c) == now

\* update(repos).set({ lastSyncedAt: new Date() }).where(id = repoId)
UpdateMarker(c) ==
  /\ call[c].pc = "marker"
  /\ \/ /\ Raise(c, "marker", StorageError)
        /\ UNCHANGED lastSyncedAt
     \/ /\ lastSyncedAt' = [lastSyncedAt EXCEPT ![call[c].repoId] = <<MarkerValue(c)>>]
        /\ call' = [call EXCEPT ![c].pc = "complete"]
  /\ UNCHANGED <<now, issueRows, nextIssueId, syncLog>>
  /\ UNCHANGED <<mergeVars, netVars, triageVars, sweepVars, clientVars, originVars, raceVars>>

\* update(syncLog).set({ status: "completed", issuesFetched }); return completed
CompleteLog(c) ==
  /\ call[c].pc = "complete"
  /\ \/ /\ Raise(c, "complete", StorageError)
        /\ UNCHANGED syncLog
     \/ /\ syncLog' = [syncLog EXCEPT ![c].status = "completed",
                                       ![c].issuesFetched = Len(call[c].fetched)]
        /\ Return(c, "completed", Len(call[c].fetched), "")
  /\ UNCHANGED <<now, lastSyncedAt, issueRows, nextIssueId>>
  /\ UNCHANGED <<mergeVars, netVars, triageVars, sweepVars, clientVars, originVars, raceVars>>

\* catch (err): update(syncLog).set({ status: "failed", error }); return failed
CatchFailure(c) ==
  /\ call[c].pc = "catch"
  /\ \/ /\ Escape(c, "catch")
        /\ UNCHANGED syncLog
     \/ /\ syncLog' = [syncLog EXCEPT ![c].status = "failed", ![c].error = call[c].err]
        /\ Return(c, "failed", 0, call[c].err)
  /\ UNCHANGED <<now, lastSyncedAt, issueRows, nextIssueId>>
  /\ UNCHANGED <<mergeVars, netVars, triageVars, sweepVars, clientVars, originVars, raceVars>>

\* time passes
Tick ==
  /\ now < MaxClock
  /\ now' = now + 1
  /\ UNCHANGED <<lastSyncedAt, issueRows, nextIssueId, syncLog, call>>
  /\ UNCHANGED <<mergeVars, netVars, triageVars, sweepVars, clientVars, originVars, raceVars>>

SyncInit ==
  /\ acc = EmptyPayload
  /\ existing = EmptyPayload
  /\ incoming = EmptyPayload
  /\ mergePhase = "idle"
  /\ upstream = {}
  /\ refLabels = {}
  /\ opCount = 0
  /\ SyncAtRest
  /\ TriageAtRest
  /\ RaceAtRest
  /\ OriginAtRest
  /\ ClientAtRest
  /\ SweepAtRest

SyncNext ==
  \/ \E c \in Calls, r \in OneRepoPerUser, u \in Users : StartSync(c, r, u)
  \/ \E c \in Calls : LookupRepo(c)
  \/ \E c \in Calls : InsertSyncLog(c)
  \/ \E c \in Calls : ResolveToken(c)
  \/ \E c \in Calls : FetchIssues(c)
  \/ \E c \in Calls : SelectExisting(c)
  \/ \E c \in Calls : WriteIssue(c)
  \/ \E c \in Calls : UpdateMarker(c)
  \/ \E c \in Calls : CompleteLog(c)
  \/ \E c \in Calls : CatchFailure(c)
  \/ Tick

SyncSpec == SyncInit /\ [][SyncNext]_vars

(***************************************************************************)
(* Claims about mergePendingChanges.                                       *)
(***************************************************************************)
Disjoint(field) == Elements(field.add) \cap Elements(field.remove) = {}

\* C1: after any sequence of merges into the empty accumulator no item is in
\* both the add list and the remove list, for labels and for assignees.
C1_AddRemoveDisjoint == Disjoint(acc.labels) /\ Disjoint(acc.assignees)

\* C1 witness: a merge whose add cancelled a staged removal in an accumulator that
\* still holds another staged removal.
C1_Witness ==
  /\ mergePhase = "merged"
  /\ \E x \in Labels :
       /\ x \in Elements(existing.labels.remove)
       /\ x \in Elements(incoming.labels.add)
       /\ x \in Elements(acc.labels.add)
       /\ Elements(acc.labels.remove) # {}

\* C2 (as claimed): applying the final accumulator to the upstream label set,
\* (L union add) minus remove, equals the operations applied one by one to L.
C2_NetEffectEqualsReference == ApplySetChange(upstream, acc.labels) = refLabels

\* the occurrences of the incoming remove list that are not in pending-add when
\* their turn comes: the item was not in pending-add after the adds, or an earlier
\* occurrence of the same item has already deleted it from pending-add
NotCancelling(pendingAdd, removeList) ==
  {removeList[i] : i \in {j \in 1..Len(removeList) :
       \/ removeList[j] \notin pendingAdd
       \/ \E k \in 1..(j - 1) : removeList[k] = removeList[j]}}

\* the step of C3 on one field, as sets
SetStepAsClaimed(prev, inc, result) ==
  LET add1 == Elements(prev.add) \cup Elements(inc.add)
      remove1 == Elements(prev.remove) \ Elements(inc.add)
  IN /\ result.present
     /\ Elements(result.add) = add1 \ Elements(inc.remove)
     /\ Elements(result.remove) = remove1 \cup NotCancelling(add1, inc.remove)

\* C3: for labels and for assignees a merge deletes every incoming add item from
\* pending-remove and inserts it into pending-add, then deletes from pending-add
\* every incoming remove item found there without inserting it into pending-remove,
\* and inserts every other incoming remove item into pending-remove; an add of x
\* followed by a remove of x leaves add = [] and remove = [], a remove of x
\* followed by an add of x leaves add = [x] and x not in remove.
C3_SetReconciliationStep ==
  mergePhase = "merged" =>
    /\ incoming.labels.present => SetStepAsClaimed(existing.labels, incoming.labels, acc.labels)
    /\ incoming.assignees.present =>
         SetStepAsClaimed(existing.assignees, incoming.assignees, acc.assignees)
    /\ \A x \in Labels :
         /\ (existing.labels.add = <<x>> /\ existing.labels.remove = <<>>
               /\ incoming = removeLabel(x))
              => (acc.labels.add = <<>> /\ acc.labels.remove = <<>>)
         /\ (existing.labels.add = <<>> /\ existing.labels.remove = <<x>>
               /\ incoming = addLabel(x))
              => (acc.labels.add = <<x>> /\ x \notin Elements(acc.labels.remove))

\* C3 witness: a removal of a label that was a pending add has been merged and the
\* label is in neither list.
C3_Witness ==
  /\ mergePhase = "merged"
  /\ \E x \in Labels :
       /\ existing.labels.add = <<x>> /\ existing.labels.remove = <<>>
       /\ incoming = removeLabel(x)
       /\ acc.labels.add = <<>> /\ acc.labels.remove = <<>>

ScalarFields == {"priority", "snoozedUntil", "dismissed", "state"}

\* C4: each scalar field of the merged accumulator holds the incoming value when
\* the payload has the field (an explicit null included) and the existing value
\* when it has not; a payload that carries only labels leaves priority and
\* dismissed unchanged.
C4_ScalarLastWriteWins ==
  mergePhase = "merged" =>
    /\ \A f \in ScalarFields :
         /\ incoming[f] # Undefined => acc[f] = incoming[f]
         /\ incoming[f] = Undefined => acc[f] = existing[f]
    /\ (incoming.labels.present /\ [incoming EXCEPT !.labels = NoChange] = EmptyPayload)
         => (acc.priority = existing.priority /\ acc.dismissed = existing.dismissed)

\* C4 witness: an explicit null has been merged over priority 1.
C4_Witness ==
  /\ mergePhase = "merged"
  /\ existing.priority = "1"
  /\ incoming.priority = Null
  /\ acc.priority = Null

(***************************************************************************)
(* Claims about syncRepo.                                                  *)
(***************************************************************************)
\* the call whose local variables are still in scope: no later call has started
Latest(c) == \A d \in Calls : d > c => call[d].pc = "idle"

FinalStatus == {"completed", "failed"}

\* C6 (as claimed): whatever step fails, syncRepo returns a failed result and no
\* exception reaches its caller.
C6_NoExceptionEscapes == \A c \in Calls : call[c].pc # "threw"

\* C7 (as claimed): when a step raised after the 'started' record was written and
\* syncRepo has returned, the audit record is 'failed' with a non-empty error and
\* the repository's lastSyncedAt is the value it had before the call.
C7_FailedSyncKeepsMarker ==
  \A c \in Calls :
    (Latest(c) /\ call[c].pc = "returned"
       /\ call[c].raisedIn \in {"token", "fetch", "upsert", "marker", "complete"})
    => /\ syncLog[c].status = "failed"
       /\ syncLog[c].error # ""
       /\ lastSyncedAt[call[c].repoId] = call[c].markerBefore

\* C8 (as claimed): every audit record starts as 'started' and changes exactly once,
\* to 'completed' or 'failed': once its call is over it is in a final status, the
\* one that matches the returned status when the call returned.
C8_AuditRecordFinalOnce ==
  \A c \in DOMAIN syncLog :
    /\ syncLog[c].status \in {"started"} \cup FinalStatus
    /\ call[c].pc \in Finished => syncLog[c].status \in FinalStatus
    /\ call[c].pc = "returned" => syncLog[c].status = call[c].status

\* a completed call has left a marker, and a marker is a past clock reading
MarkerIsSet ==
  /\ \A c \in Calls :
       (Latest(c) /\ call[c].pc = "returned" /\ call[c].status = "completed")
       => lastSyncedAt[call[c].repoId] # <<>>
  /\ \A r \in RepoIds : lastSyncedAt[r] # <<>> => lastSyncedAt[r][1] <= now

\* the step of a call that goes on to completion writes the clock reading of that
\* moment as the marker of the call's repository, whatever was fetched
MarkerIsAttemptTime ==
  \A c \in Calls :
    (call[c].pc = "marker" /\ call'[c].pc = "complete")
    => lastSyncedAt' = [lastSyncedAt EXCEPT ![call[c].repoId] = <<now>>]

\* the adapter is asked with the marker the repository had, with no since when it
\* had none
SinceIsPriorMarker ==
  \A c \in Calls :
    (Latest(c) /\ call[c].fetchCalls > 0) => call[c].since = call[c].markerBefore

\* a marker, once set, is never cleared and never decreases
MarkerNeverDecreases ==
  \A r \in RepoIds :
    lastSyncedAt[r] # <<>> =>
      (lastSyncedAt'[r] # <<>> /\ lastSyncedAt'[r][1] >= lastSyncedAt[r][1])

\* C9: a completed syncRepo sets the freshness marker to the clock time of the
\* attempt, never to an issue's update time, also for an empty result; with no
\* prior marker the adapter is asked without since; over successive syncs the
\* marker never decreases.
C9_MarkerIsClockTime ==
  /\ [](MarkerIsSet /\ SinceIsPriorMarker)
  /\ [][MarkerIsAttemptTime /\ MarkerNeverDecreases]_vars

\* C9 witness: a second sync of a repository completed, fetched an issue whose
\* update time is ahead of the clock, and moved the marker forward to the clock.
C9_Witness ==
  \E c \in Calls :
    /\ Latest(c) /\ call[c].pc = "returned" /\ call[c].status = "completed"
    /\ call[c].markerBefore # <<>>
    /\ call[c].fetched # <<>>
    /\ lastSyncedAt[call[c].repoId] = <<now>>
    /\ now > call[c].markerBefore[1]
    /\ \A i \in 1..Len(call[c].fetched) : call[c].fetched[i].updatedAt > now

\* the last update time a fetch result lists for a provider issue id
RECURSIVE LastListed(_, _)
LastListed(list, pid) ==
  IF list[Len(list)].providerIssueId = pid THEN list[Len(list)].updatedAt
  ELSE LastListed(SubSeq(list, 1, Len(list) - 1), pid)

\* C10: after syncRepo calls that run one after another there is at most one issue
\* row per (repository, providerIssueId); when a result lists an id twice the row
\* written for the first occurrence is updated by the second, and a later sync
\* updates that row.
C10_OneRowPerProviderIssue ==
  /\ \A a, b \in issueRows :
       (a.repoId = b.repoId /\ a.providerIssueId = b.providerIssueId) => a = b
  /\ \A c \in Calls :
       (Latest(c) /\ call[c].pc = "returned" /\ call[c].status = "completed")
       => \A i \in 1..Len(call[c].fetched) :
            \E row \in issueRows :
              /\ row.repoId = call[c].repoId
              /\ row.providerIssueId = call[c].fetched[i].providerIssueId
              /\ row.updatedAt = LastListed(call[c].fetched, row.providerIssueId)

\* C10 witness: a later sync whose result listed one id twice with different update
\* times completed on a repository that already had the row; the single row holds
\* the second occurrence.
C10_Witness ==
  \E c \in Calls :
    /\ c > 1 /\ Latest(c) /\ call[c].pc = "returned" /\ call[c].status = "completed"
    /\ 1 \in DOMAIN syncLog
    /\ syncLog[1].status = "completed" /\ syncLog[1].issuesFetched > 0
    /\ syncLog[1].repoId = call[c].repoId
    /\ Len(call[c].fetched) = 2
    /\ call[c].fetched[1].providerIssueId = call[c].fetched[2].providerIssueId
    /\ call[c].fetched[1].updatedAt # call[c].fetched[2].updatedAt
    /\ nextIssueId = 2
    /\ \E row \in issueRows :
         /\ row.providerIssueId = call[c].fetched[2].providerIssueId
         /\ row.updatedAt = call[c].fetched[2].updatedAt

(***************************************************************************)
(* The triage write path: PATCH /api/issues/:id (app/api/issues/[id]/      *)
(* route.ts) and pushBatchChanges (sync-engine), one request at a time.    *)
(* Every updateIssue call a request makes is recorded in lastOp.sent with  *)
(* the changes object it was given.                                        *)
(***************************************************************************)
\* JavaScript truthiness of an optional field value
Truthy(v) == v \notin {Undefined, Null}

\* priority !== undefined || snoozedUntil !== undefined || dismissed !== undefined
HasLocalChange(payload) ==
  \/ payload.priority # Undefined
  \/ payload.snoozedUntil # Undefined
  \/ payload.dismissed # Undefined

\* HasProviderChange that also counts the three local fields
HasProviderChangeAnyField(payload) ==
  \/ payload.labels.present \/ payload.assignees.present \/ Truthy(payload.state)
  \/ payload.priority # Undefined
  \/ payload.snoozedUntil # Undefined
  \/ payload.dismissed # Undefined

\* if (labels || assignees || state)
HasProviderChange(payload) ==
  payload.labels.present \/ payload.assignees.present \/ Truthy(payload.state)

\* the object literal { labels, assignees, state } of the PATCH handler
ProviderFields(payload) ==
  [EmptyPayload EXCEPT !.labels = payload.labels, !.assignees = payload.assignees,
                       !.state = payload.state]

\* payloadToIssueUpdate: a field is copied when it is truthy
payloadToIssueUpdate(payload) ==
  [EmptyPayload EXCEPT !.labels = IF payload.labels.present THEN payload.labels ELSE NoChange,
                       !.assignees = IF payload.assignees.present THEN payload.assignees
                                     ELSE NoChange,
                       !.state = IF Truthy(payload.state) THEN payload.state ELSE Undefined]

\* Object.keys(issueUpdate).length === 0
HasNoKeys(update) ==
  ~update.labels.present /\ ~update.assignees.present /\ update.state = Undefined

RECURSIVE AddAll(_, _)
\* for (const l of change.add ?? []) current.add(l)
AddAll(s, items) == IF items = <<>> THEN s ELSE AddAll(SetAdd(s, Head(items)), Tail(items))

RECURSIVE DeleteAll(_, _)
\* for (const l of change.remove ?? []) current.delete(l)
DeleteAll(s, items) ==
  IF items = <<>> THEN s ELSE DeleteAll(SetDelete(s, Head(items)), Tail(items))

\* [...currentLabels] after the two loops over new Set(issue.labels ?? [])
MirrorSetChange(current, change) ==
  DeleteAll(AddAll(SetNew(current), change.add), change.remove)

\* update(issues).set(issueUpdate).where(id = id): labels, assignees and state are
\* set when the changes carry them
MirrorToIssue(rows, id, changes) ==
  {IF row.id = id
   THEN [row EXCEPT
           !.labels = IF changes.labels.present
                      THEN MirrorSetChange(row.labels, changes.labels) ELSE @,
           !.assignees = IF changes.assignees.present
                         THEN MirrorSetChange(row.assignees, changes.assignees) ELSE @,
           !.state = IF Truthy(changes.state) THEN changes.state ELSE @]
   ELSE row : row \in rows}

\* a triage_state row as insert leaves it before the given values: the defaults
NewTriageRow(rowId, issueId, userId) ==
  [id |-> rowId, issueId |-> issueId, userId |-> userId, priority |-> Null,
   snoozedUntil |-> Null, dismissed |-> "false", batchPending |-> FALSE,
   pendingChanges |-> EmptyPayload]

\* triageData: a local field of the body is written when it is not undefined;
\* snoozedUntil ? new Date(snoozedUntil) : null
SetTriageData(row, payload) ==
  [row EXCEPT !.priority = IF payload.priority # Undefined THEN payload.priority ELSE @,
              !.snoozedUntil = IF payload.snoozedUntil = Undefined THEN @
                               ELSE IF Truthy(payload.snoozedUntil)
                                    THEN payload.snoozedUntil ELSE Null,
              !.dismissed = IF payload.dismissed # Undefined THEN payload.dismissed ELSE @]

\* batchData that leaves the flag as it is
SetBatchDataKeepsFlag(row, merged) == [row EXCEPT !.pendingChanges = merged]

\* batchData: { batchPending: true, pendingChanges: merged }
SetBatchData(row, merged) == [row EXCEPT !.batchPending = TRUE, !.pendingChanges = merged]

\* select().from(triageState).where(issueId = id and userId = user), by row id
SelectTriage(issueId, userId) ==
  SortedIds({row.id : row \in {q \in triageRows : q.issueId = issueId /\ q.userId = userId}})

TriageRowById(rowId) == CHOOSE row \in triageRows : row.id = rowId

\* the bodies the clients send: one field per triage action (triage-actions.ts),
\* and a local field together with a label change
PatchPayloads ==
  {[EmptyPayload EXCEPT !.snoozedUntil = v] : v \in SnoozeValues} \cup
  {[EmptyPayload EXCEPT !.priority = "1"],
   [EmptyPayload EXCEPT !.dismissed = "true"],
   addLabel("bug"), removeLabel("bug"),
   [EmptyPayload EXCEPT !.state = "closed"],
   [addLabel("bug") EXCEPT !.priority = "1"]}

\* the issue ids of the requests: issue 1 exists, issue 2 does not
RequestedIssueIds == {1, 2}

\* the response of a PATCH and what it leaves in lastOp
Respond(payload, status, calls) ==
  lastOp' = [NoOp EXCEPT !.kind = "patch", !.payload = payload, !.response = status,
                         !.sent = calls]

\* the response of a PATCH that was handled in live or in batch mode (isBatchMode)
\* and called updateIssue as `calls` says, each call with its outcome
RespondHandled(payload, isBatchMode, status, calls, ends, targets) ==
  lastOp' = [NoOp EXCEPT !.kind = "patch", !.payload = payload,
                         !.handledAs = IF isBatchMode THEN "batch" ELSE "live",
                         !.response = status, !.sent = calls, !.outcomes = ends,
                         !.targets = targets]

\* what a provider call is addressed with: owner and name of the repository row
\* read, the number of the issue row read, the token of the user
Target(issueRow, userId) ==
  [repoId |-> issueRow.repoId, number |-> issueRow.number, tokenOf |-> userId]

\* how one updateIssue call ends: every request answered 2xx; a request answered
\* with another status (ghFetch returns the response and updateIssue does not look
\* at it, so the call resolves); a request that could not be made (fetch rejects,
\* and so does the call)
UpdateOutcomes == {"accepted", "rejected", "failed"}

\* the triage_state table after `if (priority !== undefined || ...) { update or insert }`
AfterLocalWrite(triageRow, userId, id, payload) ==
  IF ~HasLocalChange(payload) THEN triageRows
  ELSE IF triageRow # <<>>
       THEN {IF row.id = triageRow[1].id THEN SetTriageData(row, payload) ELSE row :
               row \in triageRows}
       ELSE triageRows \cup {SetTriageData(NewTriageRow(nextTriageId, id, userId), payload)}

\* the triage_state table after the batch branch: the changes are merged into the
\* pendingChanges of the row read at the start of the request, which is updated, or
\* inserted when the request read no row
AfterStaging(rows, rowId, triageRow, userId, id, payload) ==
  LET currentPending == IF triageRow # <<>> THEN triageRow[1].pendingChanges ELSE EmptyPayload
      merged == mergePendingChanges(currentPending, ProviderFields(payload))
  IN IF triageRow # <<>>
     THEN {IF row.id = triageRow[1].id THEN SetBatchData(row, merged) ELSE row : row \in rows}
     ELSE rows \cup {SetBatchData(NewTriageRow(rowId, id, userId), merged)}

\* PATCH /api/issues/:id by a signed-in user with body `payload` and flag `batch`
Patch(userId, id, payload, batch) ==
  LET found == {row \in issueRows : row.id = id}
      issue == CHOOSE row \in found : TRUE
      isBatchMode == batch \/ syncMode[issue.repoId] = "batch"
      existingTriage == SelectTriage(id, userId)
      triageRow == IF existingTriage = <<>> THEN <<>>
                   ELSE <<TriageRowById(existingTriage[1])>>
      inserted == HasLocalChange(payload) /\ triageRow = <<>>
      written == AfterLocalWrite(triageRow, userId, id, payload)
      rowId == IF inserted THEN nextTriageId + 1 ELSE nextTriageId
      changes == ProviderFields(payload)
  IN
  /\ \/ /\ found = {}
        /\ Respond(payload, "404", <<>>)
        /\ UNCHANGED <<triageRows, nextTriageId, issueRows>>
     \/ /\ found # {} /\ ~OwnsRepo(issue.repoId, userId)
        /\ Respond(payload, "403", <<>>)
        /\ UNCHANGED <<triageRows, nextTriageId, issueRows>>
     \/ /\ found # {} /\ OwnsRepo(issue.repoId, userId)
        /\ ~HasProviderChange(payload)
        /\ triageRows' = written
        /\ nextTriageId' = rowId
        /\ RespondHandled(payload, isBatchMode, "200", <<>>, <<>>, <<>>)
        /\ UNCHANGED issueRows
     \/ /\ found # {} /\ OwnsRepo(issue.repoId, userId)
        /\ HasProviderChange(payload) /\ isBatchMode
        /\ triageRows' = AfterStaging(written, rowId, triageRow, userId, id, payload)
        /\ nextTriageId' = IF triageRow = <<>> THEN rowId + 1 ELSE rowId
        /\ RespondHandled(payload, isBatchMode, "200", <<>>, <<>>, <<>>)
        /\ UNCHANGED issueRows
     \/ /\ found # {} /\ OwnsRepo(issue.repoId, userId)
        /\ HasProviderChange(payload) /\ ~isBatchMode
        /\ triageRows' = written
        /\ nextTriageId' = rowId
        /\ IF getProviderToken(userId) = <<>>
           THEN /\ RespondHandled(payload, isBatchMode, "200", <<>>, <<>>, <<>>)
                /\ UNCHANGED issueRows
           ELSE \/ /\ RespondHandled(payload, isBatchMode, "500", <<changes>>, <<"failed">>,
                                      <<Target(issue, userId)>>)
                   /\ UNCHANGED issueRows
                \/ /\ \E outcome \in UpdateOutcomes \ {"failed"} :
                        RespondHandled(payload, isBatchMode, "200", <<changes>>,
                                       <<outcome>>, <<Target(issue, userId)>>)
                   /\ issueRows' = MirrorToIssue(issueRows, id, changes)
  /\ UNCHANGED <<syncMode, now, lastSyncedAt, nextIssueId, syncLog, call>>
  /\ UNCHANGED <<mergeVars, netVars, sweepVars, originVars>>

\* the progress of pushBatchChanges: the tables, the calls made with their outcomes,
\* the rows taken from pendingRows and the counts
PushStart == [issues |-> issueRows, triage |-> triageRows, sent |-> <<>>, outcomes |-> <<>>,
              targets |-> <<>>, processed |-> <<>>, pushed |-> 0, failed |-> 0]

\* ClearPending that deletes the flushed row
ClearPendingDeletesRow(rows, rowId) == {row \in rows : row.id # rowId}

\* update(triageState).set({ batchPending: false, pendingChanges: {} }).where(id = row.id)
ClearPending(rows, rowId) ==
  {IF row.id = rowId THEN [row EXCEPT !.batchPending = FALSE, !.pendingChanges = EmptyPayload]
   ELSE row : row \in rows}

\* what may happen to one row of the loop: nothing goes wrong; the origin answers a
\* request of updateIssue with a non-2xx status; a storage call rejects before
\* updateIssue ("lookup"), updateIssue rejects ("provider"), the update of the issue
\* row rejects ("mirror"), the update that clears the triage row rejects ("clear")
RowEvents == {"none", "rejected", "lookup", "provider", "mirror", "clear"}

\* the catch clause of the loop body: failed++
RowFailed(st) == [st EXCEPT !.failed = @ + 1]

\* the provider.updateIssue call of the loop body, recorded with its outcome
RowSent(st, issueUpdate, outcome, target) ==
  [st EXCEPT !.sent = Append(@, issueUpdate), !.outcomes = Append(@, outcome),
             !.targets = Append(@, target)]

\* one pass of the body of `for (const row of pendingRows) { try {...} catch { failed++ } }`
PushRow(st0, row, userId, event) ==
  LET st == [st0 EXCEPT !.processed = Append(@, row.id)]
      changes == row.pendingChanges
      issueUpdate == payloadToIssueUpdate(changes)
      found == {i \in st.issues : i.id = row.issueId}
      target == Target(CHOOSE i \in found : TRUE, userId)
  IN IF HasNoKeys(issueUpdate)
     THEN IF event = "clear" THEN RowFailed(st)
          ELSE [st EXCEPT !.triage = ClearPending(st.triage, row.id), !.pushed = @ + 1]
     ELSE IF event = "lookup" \/ found = {} \/ getProviderToken(userId) = <<>>
     THEN RowFailed(st)
     ELSE IF event = "provider" THEN RowFailed(RowSent(st, issueUpdate, "failed", target))
     ELSE LET called == RowSent(st, issueUpdate,
                                IF event = "rejected" THEN "rejected" ELSE "accepted",
                                target)
              mirrored == [called EXCEPT
                             !.issues = MirrorToIssue(st.issues, row.issueId, changes)]
          IN IF event = "mirror" THEN RowFailed(called)
             ELSE IF event = "clear" THEN RowFailed(mirrored)
             ELSE [mirrored EXCEPT !.triage = ClearPending(st.triage, row.id),
                                   !.pushed = @ + 1]

RECURSIVE PushLoopStopsAtFailure(_, _, _, _)
\* PushLoop that leaves the loop at the first row that failed
PushLoopStopsAtFailure(st, pendingIds, userId, events) ==
  IF pendingIds = <<>> \/ st.failed > 0 THEN st
  ELSE PushLoopStopsAtFailure(PushRow(st, TriageRowById(Head(pendingIds)), userId,
                                      events[Head(pendingIds)]),
                              Tail(pendingIds), userId, events)

RECURSIVE PushLoop(_, _, _, _)
\* the loop over pendingRows (row ids in the order the select returned them)
PushLoop(st, pendingIds, userId, events) ==
  IF pendingIds = <<>> THEN st
  ELSE PushLoop(PushRow(st, TriageRowById(Head(pendingIds)), userId,
                        events[Head(pendingIds)]),
                Tail(pendingIds), userId, events)

\* pushBatchChanges(userId), with what happens to each pending row
Push(userId) ==
  LET pendingIds == SortedIds({row.id : row \in {q \in triageRows :
                                  q.userId = userId /\ q.batchPending}})
  IN /\ \E end \in {PushLoop(PushStart, pendingIds, userId, events) :
                        events \in [Elements(pendingIds) -> RowEvents]} :
          /\ issueRows' = end.issues
          /\ triageRows' = end.triage
          /\ lastOp' = [NoOp EXCEPT !.kind = "push", !.userId = userId,
                                    !.sent = end.sent, !.outcomes = end.outcomes,
                                    !.targets = end.targets,
                                    !.processed = end.processed,
                                    !.pushed = end.pushed, !.failed = end.failed]
     /\ UNCHANGED <<syncMode, nextTriageId, now, lastSyncedAt, nextIssueId, syncLog, call>>
     /\ UNCHANGED <<mergeVars, netVars, sweepVars, clientVars, originVars, raceVars>>

\* one synced issue with a label, in the repository of either user; the repositories
\* are in live or in batch mode; no triage row yet
TriageInit ==
  /\ acc = EmptyPayload
  /\ existing = EmptyPayload
  /\ incoming = EmptyPayload
  /\ mergePhase = "idle"
  /\ upstream = {}
  /\ refLabels = {}
  /\ opCount = 0
  /\ now = 0
  /\ lastSyncedAt = [r \in RepoIds |-> <<>>]
  /\ \E r \in OneRepoPerUser :
       issueRows = InsertIssueRow({}, 1, r, [providerIssueId |-> "101", number |-> 1,
                                            updatedAt |-> 0, state |-> "open",
                                            labels |-> <<"bug">>, assignees |-> <<>>])
  /\ nextIssueId = 2
  /\ syncLog = <<>>
  /\ call = [c \in Calls |-> IdleCall]
  /\ \E m \in {"live", "batch"} : syncMode = [r \in RepoIds |-> m]
  /\ triageRows = {}
  /\ nextTriageId = 1
  /\ lastOp = NoOp
  /\ RaceAtRest
  /\ OriginAtRest
  /\ ClientAtRest
  /\ SweepAtRest

\* a request for an issue that does not exist or is not the user's is turned away
\* before the handler looks at a field of its body: one body stands for all of them
OneBodyIfTurnedAway(userId, id, payload, batch) ==
  (\E row \in issueRows : row.id = id /\ repoUser[row.repoId] = userId)
  \/ (payload = [EmptyPayload EXCEPT !.priority = "1"] /\ ~batch)

\* a PATCH request reaches the handler
PatchRequest(userId, id, payload, batch) ==
  /\ OneBodyIfTurnedAway(userId, id, payload, batch)
  /\ Patch(userId, id, payload, batch)
  /\ UNCHANGED <<clientVars, raceVars>>

TriageNext ==
  \/ \E u \in Users, id \in RequestedIssueIds, p \in PatchPayloads, b \in BOOLEAN :
       PatchRequest(u, id, p, b)
  \/ \E u \in Users : Push(u)

TriageSpec == TriageInit /\ [][TriageNext]_vars

(***************************************************************************)
(* Claims about the triage write path.                                     *)
(***************************************************************************)
\* a payload that carries only priority, snoozedUntil and/or dismissed
LocalOnly(payload) ==
  /\ HasLocalChange(payload)
  /\ ~payload.labels.present /\ ~payload.assignees.present /\ payload.state = Undefined

\* a changes object without any of the three local fields
NoLocalField(update) ==
  /\ update.priority = Undefined
  /\ update.snoozedUntil = Undefined
  /\ update.dismissed = Undefined

\* the staged state of the triage rows: which are batch-pending, and with what
PendingView(rows) == {[id |-> row.id, changes |-> row.pendingChanges] :
                        row \in {q \in rows : q.batchPending}}

\* no request passes a local field to updateIssue, a PATCH with a local-only
\* payload makes no updateIssue call, and payloadToIssueUpdate drops the local
\* fields of every payload
NoLocalFieldSent ==
  /\ \A i \in 1..Len(lastOp.sent) : NoLocalField(lastOp.sent[i])
  /\ (lastOp.kind = "patch" /\ LocalOnly(lastOp.payload)) => lastOp.sent = <<>>
  /\ \A p \in TriagePayloads \cup PatchPayloads : NoLocalField(payloadToIssueUpdate(p))

\* a PATCH with a local-only payload leaves the batch-pending rows, their pending
\* changes and the issue table as they were, and a row it inserts is not pending
LocalOnlyStagesNothing ==
  (lastOp'.kind = "patch" /\ LocalOnly(lastOp'.payload))
  => /\ PendingView(triageRows') = PendingView(triageRows)
     /\ issueRows' = issueRows
     /\ \A row \in triageRows' \ triageRows :
          \/ ~row.batchPending /\ row.pendingChanges = EmptyPayload
          \/ \E q \in triageRows : /\ q.id = row.id
                                   /\ q.batchPending = row.batchPending
                                   /\ q.pendingChanges = row.pendingChanges

\* C5: a payload that carries only priority, snoozedUntil and/or dismissed never
\* causes an origin call: the PATCH that handles it, in live or in batch mode,
\* calls no updateIssue and does not set batch-pending, and no pushBatchChanges
\* sends one of the three fields upstream.
C5_LocalOnlyNeverReachesOrigin ==
  []NoLocalFieldSent /\ [][LocalOnlyStagesNothing]_vars

\* C5 witness: with a label change staged for the issue, the owner's PATCH that only
\* sets the priority was answered 200, the priority is in the triage row, no call
\* went to the origin and the staged change is as it was.
C5_Witness ==
  /\ lastOp.kind = "patch" /\ lastOp.response = "200"
  /\ lastOp.payload = [EmptyPayload EXCEPT !.priority = "1"]
  /\ lastOp.sent = <<>>
  /\ \E row \in triageRows :
       /\ row.issueId = 1 /\ row.userId = repoUser["r1"]
       /\ row.priority = "1"
       /\ row.batchPending
       /\ row.pendingChanges = addLabel("bug")

(***************************************************************************)
(* Overlapping syncRepo calls: a call may start while another is between   *)
(* two of its await points; the steps of the calls interleave.             *)
(***************************************************************************)
\* syncRepo(repoId, userId) is called while other calls may be running
StartOverlappingSync(c, repoId, userId) ==
  /\ call[c].pc = "idle"
  /\ \A d \in Calls : d < c => call[d].pc # "idle"
  /\ call' = [call EXCEPT ![c] = [IdleCall EXCEPT !.pc = "lookup", !.repoId = repoId,
                                                  !.userId = userId,
                                                  !.markerBefore = lastSyncedAt[repoId]]]
  /\ UNCHANGED <<now, lastSyncedAt, issueRows, nextIssueId, syncLog>>
  /\ UNCHANGED <<mergeVars, netVars, triageVars, sweepVars, clientVars, originVars, raceVars>>

\* syncs of repository r1 by its owner, any number of them in flight
OverlapNext ==
  \/ \E c \in Calls : StartOverlappingSync(c, "r1", repoUser["r1"])
  \/ \E c \in Calls : LookupRepo(c)
  \/ \E c \in Calls : InsertSyncLog(c)
  \/ \E c \in Calls : ResolveToken(c)
  \/ \E c \in Calls : FetchIssues(c)
  \/ \E c \in Calls : SelectExisting(c)
  \/ \E c \in Calls : WriteIssue(c)
  \/ \E c \in Calls : UpdateMarker(c)
  \/ \E c \in Calls : CompleteLog(c)
  \/ \E c \in Calls : CatchFailure(c)

OverlapSpec == SyncInit /\ [][OverlapNext]_vars

\* C11: when syncRepo calls for one repository overlap, there is at most one issue
\* row per (repository, providerIssueId) once all of them have returned.
C11_OverlappingSyncsKeepOneRow ==
  (\A c \in Calls : call[c].pc \in {"idle", "returned", "threw"})
  => \A a, b \in issueRows :
       (a.repoId = b.repoId /\ a.providerIssueId = b.providerIssueId) => a.id = b.id

(***************************************************************************)
(* syncAllRepos (sync-engine): the user's enabled repositories are synced  *)
(* one after another by syncRepo, whose steps are those of the pull path.  *)
(***************************************************************************)
\* the orders in which a select may return the rows of a set
Orderings(S) ==
  {s \in [1..Cardinality(S) -> S] : \A i, j \in 1..Cardinality(S) : i # j => s[i] # s[j]}

\* the rows of select().from(repos).where(userId = userId and syncEnabled = true)
EnabledReposOf(userId) == {r \in RepoIds : repoUser[r] = userId /\ syncEnabled[r]}

\* syncAllRepos(userId) is called
StartSweep(userId) ==
  /\ sweep.pc = "idle"
  /\ sweep' = [IdleSweep EXCEPT !.pc = "select", !.userId = userId]
  /\ UNCHANGED <<syncEnabled, syncVars, mergeVars, netVars, triageVars, clientVars, originVars, raceVars>>

\* const userRepos = await select()...; const results = []
SelectUserRepos ==
  /\ sweep.pc = "select"
  /\ \/ sweep' = [sweep EXCEPT !.pc = "threw"]
     \/ \E order \in Orderings(EnabledReposOf(sweep.userId)) :
          sweep' = [sweep EXCEPT !.pc = "loop", !.userRepos = order, !.idx = 1]
  /\ UNCHANGED <<syncEnabled, syncVars, mergeVars, netVars, triageVars, clientVars, originVars, raceVars>>

\* for (const repo of userRepos) { ... await syncRepo(repo.id, userId)
CallSyncRepo ==
  /\ sweep.pc = "loop"
  /\ sweep.idx <= Len(sweep.userRepos)
  /\ call' = [d \in Calls |->
               IF d = sweep.idx
               THEN [IdleCall EXCEPT !.pc = "lookup", !.repoId = sweep.userRepos[sweep.idx],
                                     !.userId = sweep.userId,
                                     !.markerBefore = lastSyncedAt[sweep.userRepos[sweep.idx]]]
               ELSE Outcome(call[d])]
  /\ sweep' = [sweep EXCEPT !.pc = "await"]
  /\ UNCHANGED <<now, lastSyncedAt, issueRows, nextIssueId, syncLog>>
  /\ UNCHANGED <<syncEnabled, mergeVars, netVars, triageVars, clientVars, originVars, raceVars>>

\* const result = await syncRepo(...); results.push(result) }: the awaited call has
\* returned its result, or has thrown and syncAllRepos rejects with it
TakeResult ==
  /\ sweep.pc = "await"
  /\ \/ /\ call[sweep.idx].pc = "returned"
        /\ sweep' = [sweep EXCEPT !.pc = "loop", !.idx = @ + 1,
                       !.results = Append(@, [repoId |-> call[sweep.idx].repoId,
                                              status |-> call[sweep.idx].status,
                                              issuesFetched |-> call[sweep.idx].issuesFetched,
                                              error |-> call[sweep.idx].error])]
     \/ /\ call[sweep.idx].pc = "threw"
        /\ sweep' = [sweep EXCEPT !.pc = "threw"]
  /\ UNCHANGED <<syncEnabled, syncVars, mergeVars, netVars, triageVars, clientVars, originVars, raceVars>>

\* return results
ReturnResults ==
  /\ sweep.pc = "loop"
  /\ sweep.idx > Len(sweep.userRepos)
  /\ sweep' = [sweep EXCEPT !.pc = "returned"]
  /\ UNCHANGED <<syncEnabled, syncVars, mergeVars, netVars, triageVars, clientVars, originVars, raceVars>>

\* repositories enabled or disabled for sync, nothing synced, no triage row
SweepInit ==
  /\ acc = EmptyPayload
  /\ existing = EmptyPayload
  /\ incoming = EmptyPayload
  /\ mergePhase = "idle"
  /\ upstream = {}
  /\ refLabels = {}
  /\ opCount = 0
  /\ SyncAtRest
  /\ TriageAtRest
  /\ RaceAtRest
  /\ OriginAtRest
  /\ ClientAtRest
  /\ syncEnabled \in [RepoIds -> BOOLEAN]
  /\ sweep = IdleSweep

SweepNext ==
  \/ \E u \in Users : StartSweep(u)
  \/ SelectUserRepos
  \/ CallSyncRepo
  \/ TakeResult
  \/ ReturnResults
  \/ \E c \in Calls : LookupRepo(c)
  \/ \E c \in Calls : InsertSyncLog(c)
  \/ \E c \in Calls : ResolveToken(c)
  \/ \E c \in Calls : FetchIssues(c)
  \/ \E c \in Calls : SelectExisting(c)
  \/ \E c \in Calls : WriteIssue(c)
  \/ \E c \in Calls : UpdateMarker(c)
  \/ \E c \in Calls : CompleteLog(c)
  \/ \E c \in Calls : CatchFailure(c)

SweepSpec == SweepInit /\ [][SweepNext]_vars

\* a syncRepo call is running
Running(c) == call[c].pc \notin {"idle", "returned", "threw", "over"}

\* C12: syncAllRepos(user) calls syncRepo for the enabled repositories of the user
\* and no other, one call at a time, and returns one result per such repository
\* in the order of the calls, whether the syncs completed or failed.
C12_SweepOneResultPerRepo ==
  /\ sweep.pc # "threw"
  /\ \A c, d \in Calls : (Running(c) /\ Running(d)) => c = d
  /\ \A c \in Calls :
       call[c].pc \notin {"idle", "over"} =>
         /\ repoUser[call[c].repoId] = sweep.userId
         /\ syncEnabled[call[c].repoId]
         /\ call[c].repoId = sweep.userRepos[c]
  /\ sweep.pc = "returned" =>
       /\ Len(sweep.results) = Cardinality(EnabledReposOf(sweep.userId))
       /\ {sweep.results[i].repoId : i \in 1..Len(sweep.results)} = EnabledReposOf(sweep.userId)
       /\ \A i \in 1..Len(sweep.results) : sweep.results[i].repoId = sweep.userRepos[i]

(***************************************************************************)
(* Claims about pushBatchChanges.                                          *)
(***************************************************************************)
\* the rows of a user that are batch-pending
PendingRowsOf(rows, userId) == {row \in rows : row.userId = userId /\ row.batchPending}

\* a push counts every row it took once, and took no row twice
EveryRowCounted ==
  lastOp.kind = "push" =>
    /\ lastOp.pushed + lastOp.failed = Len(lastOp.processed)
    /\ \A i, j \in 1..Len(lastOp.processed) :
         lastOp.processed[i] = lastOp.processed[j] => i = j

\* a push takes the rows of the user that were batch-pending when it started
TakesThePendingRows ==
  lastOp'.kind = "push" =>
    /\ Elements(lastOp'.processed) = {row.id : row \in PendingRowsOf(triageRows, lastOp'.userId)}
    /\ lastOp'.pushed + lastOp'.failed =
         Cardinality(PendingRowsOf(triageRows, lastOp'.userId))

\* C13: pushBatchChanges processes every row of the user that is batch-pending when
\* it starts exactly once; a row that fails increments failed and the loop goes on,
\* so pushed + failed is the number of rows that were pending at the start.
C13_PushCountsEveryPendingRow ==
  []EveryRowCounted /\ [][TakesThePendingRows]_vars

\* C13 witness: a push took two pending rows, the first failed and is still
\* pending, the second was pushed and is cleared.
C13_Witness ==
  /\ lastOp.kind = "push"
  /\ Len(lastOp.processed) = 2
  /\ lastOp.pushed = 1 /\ lastOp.failed = 1
  /\ \E first, second \in triageRows :
       /\ first.id = lastOp.processed[1] /\ first.batchPending
       /\ second.id = lastOp.processed[2] /\ ~second.batchPending

\* the requests updateIssue sends to the origin for a changes object: one for a
\* state, one for a non-empty labels.add, one per item of labels.remove, one for
\* a non-empty assignees.add, one for a non-empty assignees.remove
OriginRequests(changes) ==
  (IF Truthy(changes.state) THEN 1 ELSE 0)
  + (IF Len(changes.labels.add) > 0 THEN 1 ELSE 0)
  + Len(changes.labels.remove)
  + (IF Len(changes.assignees.add) > 0 THEN 1 ELSE 0)
  + (IF Len(changes.assignees.remove) > 0 THEN 1 ELSE 0)

\* an accumulated payload with no net provider-facing change
NoNetChange(changes) ==
  /\ ~Truthy(changes.state)
  /\ changes.labels.add = <<>> /\ changes.labels.remove = <<>>
  /\ changes.assignees.add = <<>> /\ changes.assignees.remove = <<>>

\* C14: for a batch-pending row whose accumulated payload has no net provider-facing
\* change, pushBatchChanges sends nothing to the origin, clears batch-pending and
\* the payload and counts the row as pushed, whether or not the issue, the
\* repository or a token can be resolved.
C14_NoNetChangeIsClearedUnsent ==
  [][lastOp'.kind = "push" =>
       LET pending == PendingRowsOf(triageRows, lastOp'.userId)
       IN (pending # {} /\ \A row \in pending : NoNetChange(row.pendingChanges))
          => /\ \A i \in 1..Len(lastOp'.sent) : OriginRequests(lastOp'.sent[i]) = 0
             /\ lastOp'.pushed = Cardinality(pending)
             /\ \A row \in pending :
                  \E after \in triageRows' :
                    /\ after.id = row.id
                    /\ ~after.batchPending
                    /\ after.pendingChanges = EmptyPayload]_vars

\* a triage row without its staging fields
LocalPart(row) == [id |-> row.id, issueId |-> row.issueId, userId |-> row.userId,
                   priority |-> row.priority, snoozedUntil |-> row.snoozedUntil,
                   dismissed |-> row.dismissed]

\* the row with a given id is in the table, cleared
Cleared(rows, rowId) ==
  \E row \in rows : row.id = rowId /\ ~row.batchPending /\ row.pendingChanges = EmptyPayload

\* what a push does to the triage rows: no row appears or disappears, no priority,
\* snooze or dismissed value changes; a row is either as it was or cleared, the
\* cleared rows are as many as pushed says, and the user's rows that are still
\* pending as they were are as many as failed says
PushKeepsFailedRows ==
  lastOp'.kind = "push" =>
    LET pending == PendingRowsOf(triageRows, lastOp'.userId)
        kept == pending \cap triageRows'
        flushed == {row \in pending : row \notin triageRows' /\ Cleared(triageRows', row.id)}
    IN /\ {LocalPart(row) : row \in triageRows'} = {LocalPart(row) : row \in triageRows}
       /\ triageRows \ pending \subseteq triageRows'
       /\ pending = kept \cup flushed
       /\ Cardinality(flushed) = lastOp'.pushed
       /\ Cardinality(kept) = lastOp'.failed

\* C15: pushBatchChanges clears batch-pending and the pending payload only of rows
\* it counts as pushed, deletes no row and changes no priority, snooze or
\* dismissed value; a row it counts as failed is still batch-pending with the
\* payload it had, so the next push takes it again.
C15_FailedRowsStayPending ==
  [][PushKeepsFailedRows]_vars

\* C15 witness: a push flushed a row that holds a priority, which it still holds,
\* and failed on a row whose staged label change is still pending.
C15_Witness ==
  /\ lastOp.kind = "push" /\ lastOp.pushed = 1 /\ lastOp.failed = 1
  /\ \E flushed, kept \in triageRows :
       /\ flushed.id = lastOp.processed[1] /\ kept.id = lastOp.processed[2]
       /\ ~flushed.batchPending /\ flushed.pendingChanges = EmptyPayload
       /\ flushed.priority = "1"
       /\ kept.batchPending /\ kept.pendingChanges = addLabel("bug")

(***************************************************************************)
(* Claims about the write-back to the origin.                              *)
(***************************************************************************)
RECURSIVE MirrorAccepted(_, _, _, _)
\* the issue table after mirroring, in order, those of the updateIssue calls that
\* the origin accepted and that `mirrored` selects (the model has one issue: row 1)
MirrorAccepted(rows, calls, ends, mirrored) ==
  IF calls = <<>> THEN rows
  ELSE MirrorAccepted(IF Head(ends) = "accepted" /\ Head(mirrored)
                      THEN MirrorToIssue(rows, 1, Head(calls)) ELSE rows,
                      Tail(calls), Tail(ends), Tail(mirrored))

\* C16: PATCH and pushBatchChanges change the labels, assignees and state of an
\* issue row only to mirror a change the origin accepted; when updateIssue was
\* answered with a non-2xx status or failed, the row keeps what it had.
C16_MirrorsOnlyAcceptedChanges ==
  [][lastOp'.kind \in {"patch", "push"}
       => \E mirrored \in [1..Len(lastOp'.sent) -> BOOLEAN] :
            issueRows' = MirrorAccepted(issueRows, lastOp'.sent, lastOp'.outcomes,
                                        mirrored)]_vars

\* C17: in live mode a PATCH that carries a label, assignee or state change and
\* answers success has called updateIssue with that change, which reached the
\* origin, and has staged nothing.
C17_LiveSuccessMeansWritten ==
  [][(/\ lastOp'.kind = "patch" /\ lastOp'.handledAs = "live"
      /\ lastOp'.response = "200" /\ HasProviderChange(lastOp'.payload))
       => /\ lastOp'.sent = <<ProviderFields(lastOp'.payload)>>
          /\ lastOp'.outcomes = <<"accepted">>
          /\ PendingView(triageRows') = PendingView(triageRows)]_vars

(***************************************************************************)
(* The browser: the query cache of the issue lists (use-issues.ts),        *)
(* useTriageMutation with its optimistic update and rollback, the undo     *)
(* store (use-undo.ts) and the undo key (useKeyboardActions).  The browser *)
(* belongs to the owner of the repository of issue 1; its requests are     *)
(* served by the PATCH handler above.                                      *)
(***************************************************************************)
\* the triage mutations one browser session starts
MaxMutations == 3
\* the triage mutations that have not settled, at any time
MaxInFlight == 1

ClientUser == repoUser[(CHOOSE row \in issueRows : row.id = 1).repoId]

\* the `triage` of an issue that has no triage row: applyPayloadToIssue's default
DefaultTriage == [priority |-> Null, snoozedUntil |-> Null, dismissed |-> "false"]

\* GET /api/issues?state=... for the list with key k: the issues of the user's
\* repositories in that state, each with the user's triage row of that issue (the
\* last one selected, if several)
ServerList(userId, k) ==
  LET rowIds == SelectTriage(1, userId)
      last == TriageRowById(rowIds[Len(rowIds)])
      triage == IF rowIds = <<>> THEN <<>>
                ELSE <<[priority |-> last.priority, snoozedUntil |-> last.snoozedUntil,
                        dismissed |-> last.dismissed]>>
      shown == {row \in issueRows : row.state = k /\ repoUser[row.repoId] = userId}
  IN [loaded |-> TRUE,
      list |-> IF shown = {} THEN <<>>
               ELSE LET row == CHOOSE r \in shown : TRUE
                    IN <<[id |-> row.id, state |-> row.state, labels |-> row.labels,
                          assignees |-> row.assignees, triage |-> triage]>>]

\* applyPayloadToIssue(issue, payload)
applyPayloadToIssue(issue, payload) ==
  LET triage == IF issue.triage = <<>> THEN DefaultTriage ELSE issue.triage[1]
      newTriage ==
        [triage EXCEPT
           !.priority = IF payload.priority # Undefined THEN payload.priority ELSE @,
           !.snoozedUntil = IF payload.snoozedUntil # Undefined THEN payload.snoozedUntil
                            ELSE @,
           !.dismissed = IF payload.dismissed # Undefined THEN payload.dismissed ELSE @]
  IN [issue EXCEPT
        !.labels = IF payload.labels.present
                   THEN MirrorSetChange(issue.labels, payload.labels) ELSE @,
        !.assignees = IF payload.assignees.present
                      THEN MirrorSetChange(issue.assignees, payload.assignees) ELSE @,
        !.state = IF Truthy(payload.state) THEN payload.state ELSE @,
        !.triage = <<newTriage>>]

\* setQueryData(queryKey, (old) => old && old.map(...)) of onMutate
OptimisticData(data, input) ==
  IF ~data.loaded THEN data
  ELSE [data EXCEPT !.list = [i \in DOMAIN data.list |->
                                IF data.list[i].id # input.issueId THEN data.list[i]
                                ELSE applyPayloadToIssue(data.list[i], input.payload)]]

\* setQueryData(queryKey, data) of onError: the query client leaves the query as it
\* is when the data it is given is undefined
RestoredData(current, data) == IF data.loaded THEN data ELSE current

TriageInput(payload, previousPayload, description, batch) ==
  [issueId |-> 1, payload |-> payload, previousPayload |-> previousPayload,
   description |-> description, batch |-> batch]

\* what the label picker hands to triage.mutate when it was given the batch flag: a
\* label of the issue removed, another label added
ClientInputs ==
  {TriageInput(removeLabel("bug"), addLabel("bug"), "Removed label", TRUE),
   TriageInput(addLabel("urgent"), removeLabel("urgent"), "Added label", TRUE)}

\* triage.mutate(input): onMutate snapshots every ["issues"] query and applies the
\* payload to the cached lists; the PATCH request is then in flight
StartMutationWithin(input, started, inFlight) ==
  /\ mutationId < started
  /\ Cardinality(mutations) < inFlight
  /\ mutationId' = mutationId + 1
  /\ mutations' = mutations \cup {[id |-> mutationId + 1, input |-> input,
                                   snapshots |-> views, pc |-> "pending"]}
  /\ views' = [k \in ViewKeys |-> OptimisticData(views[k], input)]

StartMutation(input) == StartMutationWithin(input, MaxMutations, MaxInFlight)

Mutate(input) ==
  /\ StartMutation(input)
  /\ UNCHANGED <<undoStack, toasts, undoLog>>
  /\ UNCHANGED <<mergeVars, netVars, syncVars, triageVars, sweepVars, originVars, raceVars>>

\* the PATCH request of mutation id reaches the handler; res.ok decides mutationFn
ServerHandles(id) ==
  \E m \in {q \in mutations : q.id = id} :
  /\ m.pc = "pending"
  /\ Patch(ClientUser, m.input.issueId, m.input.payload, m.input.batch)
  /\ mutations' = (mutations \ {m}) \cup
                    {[m EXCEPT !.pc = IF lastOp'.response = "200" THEN "ok" ELSE "failed"]}
  /\ UNCHANGED <<views, undoStack, mutationId, toasts, undoLog>>
  /\ UNCHANGED raceVars

\* fetch rejects: the request of mutation id never reaches the handler
FetchFails(id) ==
  \E m \in {q \in mutations : q.id = id} :
  /\ m.pc = "pending"
  /\ mutations' = (mutations \ {m}) \cup {[m EXCEPT !.pc = "failed"]}
  /\ UNCHANGED <<views, undoStack, mutationId, toasts, undoLog>>
  /\ UNCHANGED <<mergeVars, netVars, syncVars, triageVars, sweepVars, originVars, raceVars>>

\* onError of mutation id: every snapshot is put back, toast.error
OnError(id) ==
  \E m \in {q \in mutations : q.id = id} :
  /\ m.pc = "failed"
  /\ views' = [k \in ViewKeys |-> RestoredData(views[k], m.snapshots[k])]
  /\ toasts' = [toasts EXCEPT !.error = @ + 1]
  /\ mutations' = mutations \ {m}
  /\ UNCHANGED <<undoStack, mutationId, undoLog>>
  /\ UNCHANGED <<mergeVars, netVars, syncVars, triageVars, sweepVars, originVars, raceVars>>

\* the TriageAction that onSuccess pushes
UndoAction(input) ==
  [issueId |-> input.issueId, payload |-> input.payload,
   previousPayload |-> input.previousPayload, description |-> input.description]

\* onSuccess of mutation id: pushUndo and "Change staged" if (batch), else the toast
\* with the Undo button, whose callback holds issueId and previousPayload
OnSuccess(id) ==
  \E m \in {q \in mutations : q.id = id} :
  /\ m.pc = "ok"
  /\ IF m.input.batch
     THEN /\ undoStack' = Append(undoStack, UndoAction(m.input))
          /\ undoLog' = Append(undoLog, [op |-> "push", action |-> UndoAction(m.input)])
          /\ toasts' = [toasts EXCEPT !.staged = @ + 1]
     ELSE /\ toasts' = [toasts EXCEPT !.undo = @ \cup {[of |-> m.id,
                                                       issueId |-> m.input.issueId,
                                                       previousPayload |->
                                                         m.input.previousPayload]}]
          /\ UNCHANGED <<undoStack, undoLog>>
  /\ mutations' = mutations \ {m}
  /\ UNCHANGED <<views, mutationId>>
  /\ UNCHANGED <<mergeVars, netVars, syncVars, triageVars, sweepVars, originVars, raceVars>>

\* the Undo button of the toast of mutation id: the reverse mutation sends
\* previousPayload, with no optimistic update and no further undo
ClickUndo(id) ==
  \E t \in {q \in toasts.undo : q.of = id} :
  /\ Patch(ClientUser, t.issueId, t.previousPayload, FALSE)
  /\ toasts' = [toasts EXCEPT !.undo = @ \ {t}]
  /\ UNCHANGED <<views, undoStack, mutationId, mutations, undoLog>>
  /\ UNCHANGED raceVars

\* pop of a store that takes the oldest action
PopOldest(stack) == [action |-> Head(stack), stack |-> Tail(stack)]

\* useUndoStore's pop on a stack that is not empty: the last action and the rest
Pop(stack) == [action |-> stack[Len(stack)], stack |-> SubSeq(stack, 1, Len(stack) - 1)]

\* key "undo": popUndo(), and if it gave an action, triage.mutate of its inverse
UndoKey ==
  /\ IF undoStack = <<>>
     THEN UNCHANGED <<views, undoStack, mutationId, mutations, undoLog>>
     ELSE LET popped == Pop(undoStack)
          IN /\ undoStack' = popped.stack
             /\ undoLog' = Append(undoLog, [op |-> "undo", action |-> popped.action])
             /\ StartMutation([issueId |-> popped.action.issueId,
                               payload |-> popped.action.previousPayload,
                               previousPayload |-> popped.action.payload,
                               description |-> "Undid last action", batch |-> FALSE])
  /\ UNCHANGED toasts
  /\ UNCHANGED <<mergeVars, netVars, syncVars, triageVars, sweepVars, originVars, raceVars>>

\* the query of list k fetches (on mount, after invalidateQueries, on its interval)
Refetch(k) ==
  /\ views' = [views EXCEPT ![k] = ServerList(ClientUser, k)]
  /\ UNCHANGED <<undoStack, mutationId, mutations, toasts, undoLog>>
  /\ UNCHANGED <<mergeVars, netVars, syncVars, triageVars, sweepVars, originVars, raceVars>>

MutationIds == 1..MaxMutations

ClientNext ==
  \/ \E input \in ClientInputs : Mutate(input)
  \/ \E id \in MutationIds : ServerHandles(id)
  \/ \E id \in MutationIds : FetchFails(id)
  \/ \E id \in MutationIds : OnError(id)
  \/ \E id \in MutationIds : OnSuccess(id)
  \/ \E id \in MutationIds : ClickUndo(id)
  \/ UndoKey
  \/ \E k \in ViewKeys : Refetch(k)

\* the browser of user u1 opens on the state TriageInit describes
ClientInit == TriageInit /\ \A row \in issueRows : row.repoId = "r1"

ClientSpec == ClientInit /\ [][ClientNext]_vars

(***************************************************************************)
(* Claims about a failed write and about undo.                             *)
(***************************************************************************)
\* C18: when the write of a triage action fails, nothing of the failed action
\* remains applied in storage: a PATCH that answers a failure leaves the triage
\* rows and the issue rows as they were (the browser's part of the failure, the
\* rollback of the cached lists and the error notification, is OnError).
C18_FailedWriteLeavesNothing ==
  [][(lastOp'.kind = "patch" /\ lastOp'.response # "200")
       => (triageRows' = triageRows /\ issueRows' = issueRows)]_vars

\* the log is a run of pushes followed by a run of as many undos
PushesThenUndos(log) ==
  /\ Len(log) % 2 = 0
  /\ \A i \in 1..Len(log) : log[i].op = IF 2 * i <= Len(log) THEN "push" ELSE "undo"

RECURSIVE StackAfter(_)
\* the stack a last-in-first-out store holds after the pushes and pops of the log;
\* lifo is FALSE if a pop of the log did not give the action that was on top
StackAfter(log) ==
  IF log = <<>> THEN [lifo |-> TRUE, stack |-> <<>>]
  ELSE LET before == StackAfter(SubSeq(log, 1, Len(log) - 1))
           entry == log[Len(log)]
           top == Len(before.stack)
       IN IF entry.op = "push"
          THEN [before EXCEPT !.stack = Append(@, entry.action)]
          ELSE IF top > 0 /\ before.stack[top] = entry.action
               THEN [before EXCEPT !.stack = SubSeq(@, 1, top - 1)]
               ELSE [before EXCEPT !.lifo = FALSE]

\* every pop gave the most recently pushed action not yet popped; after n pushes and
\* then n undos the stack is empty and the actions were popped in reverse push order
StackIsLifo ==
  /\ StackAfter(undoLog) = [lifo |-> TRUE, stack |-> undoStack]
  /\ PushesThenUndos(undoLog)
       => /\ undoStack = <<>>
          /\ \A i \in 1..Len(undoLog) :
               undoLog[i].action = undoLog[Len(undoLog) + 1 - i].action

\* the stack grows only by the action of a mutation sent with the batch flag whose
\* write succeeded
PushOnlyAfterBatchSuccess ==
  Len(undoStack') > Len(undoStack)
    => \E m \in mutations :
         /\ m.pc = "ok" /\ m.input.batch
         /\ \A q \in mutations' : q.id # m.id
         /\ undoStack' = Append(undoStack, UndoAction(m.input))

\* the mutations a step starts
Started == {q \in mutations' : \A m \in mutations : m.id # q.id}

\* a mutation started by the undo key: the inverse of the action that was on top
UndoIssuesInverse ==
  \A q \in Started :
    q.input.description = "Undid last action"
      => /\ undoStack # <<>>
         /\ undoStack' = SubSeq(undoStack, 1, Len(undoStack) - 1)
         /\ q.input.issueId = undoStack[Len(undoStack)].issueId
         /\ q.input.payload = undoStack[Len(undoStack)].previousPayload
         /\ q.input.previousPayload = undoStack[Len(undoStack)].payload

\* the stack shrinks only by an undo, which starts one mutation; with an empty stack
\* no step starts an undo mutation and the stack stays empty unless an action is pushed
PopOnlyByUndo ==
  Len(undoStack') < Len(undoStack)
    => /\ undoStack' = SubSeq(undoStack, 1, Len(undoStack) - 1)
       /\ Cardinality(Started) = 1
       /\ \A q \in Started : q.input.description = "Undid last action"

\* C19: the undo stack is last-in-first-out: an action is pushed only when a write
\* sent as batch succeeded; each undo pops the most recently pushed action not yet
\* popped and issues one triage action with that action's previousPayload as
\* payload and its payload as previousPayload; an undo on an empty stack issues
\* nothing; after n pushes and n undos the stack is empty and the actions were
\* replayed in reverse push order.
C19_UndoStackIsLifo ==
  []StackIsLifo /\ [][PushOnlyAfterBatchSuccess /\ UndoIssuesInverse /\ PopOnlyByUndo]_vars

\* two different actions were pushed and the undo key gave the second one back
C19_Witness ==
  /\ Len(undoLog) = 3
  /\ undoLog[1].op = "push" /\ undoLog[2].op = "push" /\ undoLog[3].op = "undo"
  /\ undoLog[1].action # undoLog[2].action
  /\ undoLog[3].action = undoLog[2].action
  /\ undoStack = <<undoLog[1].action>>
  /\ \E q \in mutations : q.input.payload = undoLog[2].action.previousPayload


\* the error of a syncRepo call whose token resolution gave null
NoTokenError == "No github token found"

\* call c found no token and is in its catch clause or over
FoundNoToken(c) ==
  /\ call[c].pc \in {"catch", "returned", "threw"}
  /\ call[c].err = NoTokenError

\* a call that found no token has made no adapter call; once it is over it has
\* returned 'failed' with issuesFetched 0 and its audit record is 'failed'
NoTokenFailsCleanly ==
  \A c \in Calls :
    FoundNoToken(c)
    => /\ call[c].fetchCalls = 0
       /\ call[c].pc # "catch"
            => /\ call[c].pc = "returned"
               /\ call[c].status = "failed"
               /\ call[c].issuesFetched = 0
               /\ syncLog[c].status = "failed"
       /\ lastSyncedAt[call[c].repoId] = call[c].markerBefore

\* the steps of a call that finds or found no token write no issue row and no marker
NoTokenWritesNothing ==
  \A c \in Calls :
    (call'[c] # call[c] /\ (FoundNoToken(c) \/ (call[c].pc = "token" /\ FoundNoToken(c)')))
    => /\ issueRows' = issueRows
       /\ lastSyncedAt' = lastSyncedAt

\* what the stores can hold for a user: no row, or a row with a token
StoredTokens == {<<>>, <<"gho_1">>, <<"ghp_1">>}

\* the OAuth access token when one is stored, otherwise the personal token, otherwise
\* none
OAuthThenPat ==
  \A oauth \in StoredTokens, pat \in StoredTokens :
    /\ oauth # <<>> => TokenOf(oauth, pat) = oauth
    /\ (oauth = <<>> /\ pat # <<>>) => TokenOf(oauth, pat) = pat
    /\ (oauth = <<>> /\ pat = <<>>) => TokenOf(oauth, pat) = <<>>

\* C20: when credential resolution returns no token, syncRepo makes no adapter call,
\* does not retry, returns 'failed' with issuesFetched 0, marks the audit record
\* 'failed' and leaves the freshness marker and the issue rows unchanged; credential
\* resolution returns the OAuth access token when one is stored, otherwise the
\* personal token, otherwise none.
C20_NoTokenFailsWithoutFetch ==
  [](NoTokenFailsCleanly /\ OAuthThenPat) /\ [][NoTokenWritesNothing]_vars

(***************************************************************************)
(* The rate-aware transport: ghFetch (lib/github/client.ts), one action    *)
(* per await point.  Times are in milliseconds, the x-ratelimit-reset      *)
(* header in seconds since the epoch.                                      *)
(***************************************************************************)
\* Date.now() when the 403 answer is read
ClockReadings == {100000, 100500}

\* the values headers.get("x-ratelimit-reset") may give: absent, empty, not a number,
\* long past, just past, now, within the minute, a minute ahead, over a minute ahead
\* and far ahead
ResetHeaders == {Null, "", "soon", "0", "99", "100", "130", "159", "160", "161", "4000"}

\* the values headers.get("x-ratelimit-remaining") may give
RemainingHeaders == {Null, "0", "1", "4999"}

\* the statuses the origin answers with
Statuses == {200, 304, 403, 404, 500}

Responses == [status : Statuses, remaining : RemainingHeaders, resetAt : ResetHeaders]

\* a JavaScript number: a value, or NaN
Num(v) == [nan |-> FALSE, value |-> v]
NaN == [nan |-> TRUE, value |-> 0]

\* the digits of a decimal numeral
DigitValue ==
  [d \in {"0", "1", "2", "3", "4", "5", "6", "7", "8", "9"} |->
     CASE d = "0" -> 0 [] d = "1" -> 1 [] d = "2" -> 2 [] d = "3" -> 3 [] d = "4" -> 4
       [] d = "5" -> 5 [] d = "6" -> 6 [] d = "7" -> 7 [] d = "8" -> 8 [] d = "9" -> 9]

\* the header values as sequences of characters
Characters ==
  [s \in ResetHeaders \ {Null} |->
     CASE s = "" -> <<>>
       [] s = "soon" -> <<"s", "o", "o", "n">>
       [] s = "0" -> <<"0">>
       [] s = "99" -> <<"9", "9">>
       [] s = "100" -> <<"1", "0", "0">>
       [] s = "130" -> <<"1", "3", "0">>
       [] s = "159" -> <<"1", "5", "9">>
       [] s = "160" -> <<"1", "6", "0">>
       [] s = "161" -> <<"1", "6", "1">>
       [] s = "4000" -> <<"4", "0", "0", "0">>]

RECURSIVE DecimalValue(_, _)
\* the value of a run of characters read as a decimal numeral, NaN at the first
\* character that is not a digit
DecimalValue(chars, value) ==
  IF chars = <<>> THEN Num(value)
  ELSE IF Head(chars) \notin DOMAIN DigitValue THEN NaN
  ELSE DecimalValue(Tail(chars), 10 * value + DigitValue[Head(chars)])

\* Number(string): the empty string is 0, a decimal numeral its value, else NaN
NumberOf(s) == DecimalValue(Characters[s], 0)

\* Math.max(0, x): NaN when x is NaN
MathMax0(x) == IF x.nan THEN NaN ELSE IF x.value > 0 THEN x ELSE Num(0)

\* Math.min(x, cap): NaN when x is NaN
MathMin(x, cap) == IF x.nan THEN NaN ELSE IF x.value < cap THEN x ELSE Num(cap)

\* the cap on the wait
MaxWaitMs == 60000

\* waitMs = Math.max(0, Number(resetAt) * 1000 - Date.now()) + 1000
WaitMs(resetAt, dateNow) ==
  LET n == NumberOf(resetAt)
      left == MathMax0(IF n.nan THEN NaN ELSE Num(n.value * 1000 - dateNow))
  IN IF left.nan THEN NaN ELSE Num(left.value + 1000)

\* the wait without the cap
UncappedWait(waitMs) == waitMs

\* cappedWait = Math.min(waitMs, 60_000)
CappedWait(waitMs) == MathMin(waitMs, MaxWaitMs)

\* the delay setTimeout(resolve, ms) runs with: 1 when ms is NaN or below 1
TimerDelay(ms) == IF ms.nan THEN 1 ELSE IF ms.value < 1 THEN 1 ELSE ms.value

\* remaining === "0" && resetAt: the header is there and not the empty string
IsRateLimited(res) ==
  /\ res.status = 403
  /\ res.remaining = "0"
  /\ res.resetAt \notin {Null, ""}

\* ghFetch(url, token, init) is called
GhStart ==
  /\ gh.pc \in {"idle", "returned", "threw"}
  /\ gh' = [IdleFetch EXCEPT !.pc = "fetch"]
  /\ UNCHANGED <<origin, pageLog, updateCall>>
  /\ UNCHANGED <<mergeVars, netVars, syncVars, triageVars, sweepVars, clientVars, raceVars>>

\* const res = await fetch(...): the request is sent and answered, or fetch rejects;
\* a 403 with the rate-limit headers goes on to sleep, every other answer is returned
GhFirstAnswer ==
  /\ gh.pc = "fetch"
  /\ \/ gh' = [gh EXCEPT !.pc = "threw", !.sends = 1]
     \/ \E res \in Responses, t \in ClockReadings :
          IF IsRateLimited(res)
          THEN gh' = [gh EXCEPT !.pc = "sleep", !.sends = 1, !.first = res, !.dateNow = t,
                                !.waitMs = CappedWait(WaitMs(res.resetAt, t))]
          ELSE gh' = [gh EXCEPT !.pc = "returned", !.sends = 1, !.first = res,
                                !.result = res]
  /\ UNCHANGED <<origin, pageLog, updateCall>>
  /\ UNCHANGED <<mergeVars, netVars, syncVars, triageVars, sweepVars, clientVars, raceVars>>

\* await sleep(cappedWait): the timer fires
GhWake ==
  /\ gh.pc = "sleep"
  /\ gh' = [gh EXCEPT !.pc = "refetch", !.slept = TimerDelay(gh.waitMs)]
  /\ UNCHANGED <<origin, pageLog, updateCall>>
  /\ UNCHANGED <<mergeVars, netVars, syncVars, triageVars, sweepVars, clientVars, raceVars>>

\* return fetch(...): the request is sent again; its answer, or its rejection, is the
\* caller's
GhSecondAnswer ==
  /\ gh.pc = "refetch"
  /\ \/ gh' = [gh EXCEPT !.pc = "threw", !.sends = 2]
     \/ \E res \in Responses :
          gh' = [gh EXCEPT !.pc = "returned", !.sends = 2, !.result = res]
  /\ UNCHANGED <<origin, pageLog, updateCall>>
  /\ UNCHANGED <<mergeVars, netVars, syncVars, triageVars, sweepVars, clientVars, raceVars>>

FetchInit == SyncInit

FetchNext == GhStart \/ GhFirstAnswer \/ GhWake \/ GhSecondAnswer

FetchSpec == FetchInit /\ [][FetchNext]_vars

\* the request goes out a second time only from a rate-limited first answer
SecondSendOnlyWhenLimited ==
  gh'.sends = 2 => (gh.sends = 1 /\ gh.pc = "refetch" /\ IsRateLimited(gh.first))

\* once the second answer is in, it is the result and nothing more is sent
SecondAnswerIsFinal ==
  (gh.sends = 2 /\ gh'.sends # 0) => gh' = gh

\* C21: one ghFetch call sends the request at most twice; the second send happens
\* only after a 403 answer with x-ratelimit-remaining "0" and a reset time; the
\* sleep between the two sends is at most 60 seconds whatever the reset time; and
\* the second answer is handed to the caller with no further retry.
C21_RetriesOnceWithinAMinute ==
  /\ [](gh.sends <= 2 /\ gh.slept <= MaxWaitMs)
  /\ [][SecondSendOnlyWhenLimited /\ SecondAnswerIsFinal]_vars

\* C21 witness: the reset time was far ahead, the call slept the full minute, sent
\* again, was refused again and handed that second 403 to its caller.
C21_Witness ==
  /\ gh.pc = "returned"
  /\ gh.sends = 2
  /\ gh.first.resetAt = "4000"
  /\ gh.slept = MaxWaitMs
  /\ gh.result.status = 403
  /\ gh.result.remaining = "0"

(***************************************************************************)
(* fetchIssues page by page against the issues of the origin, inside       *)
(* syncRepo calls that run one after another.                              *)
(***************************************************************************)
\* per_page: the number of issues the origin puts on one page
PerPage == 1

\* the issue the origin holds for an id, as fetchIssues maps it to a ProviderIssue
OriginIssue(pid, updatedAt, state) ==
  [providerIssueId |-> pid, number |-> issueNumber[pid], updatedAt |-> updatedAt,
   state |-> state, labels |-> <<>>, assignees |-> <<>>]

\* the issues of the origin
OriginIssues == {origin[pid][1] : pid \in {q \in ProviderIssueIds : origin[q] # <<>>}}

\* state=all, since / updated_after: the issues updated at or after `since`
Matching(since) == {i \in OriginIssues : since = <<>> \/ i.updatedAt >= since[1]}

\* sort=updated, direction=desc: the orders the origin may list the matching issues in
Listings(since) ==
  {list \in Orderings(Matching(since)) :
     \A i, j \in 1..Len(list) : i < j => list[i].updatedAt >= list[j].updatedAt}

\* what page `page` holds
PageOf(list, page) ==
  SubSeq(list, (page - 1) * PerPage + 1,
         IF page * PerPage < Len(list) THEN page * PerPage ELSE Len(list))

RECURSIVE ReadPages(_, _, _, _)
\* the while (true) loop of fetchIssues: failedPage is the page whose answer is not
\* ok (0: none); the loop ends there, at an empty page, or after a short page
ReadPages(list, page, failedPage, issues) ==
  LET data == PageOf(list, page)
  IN IF page = failedPage THEN issues
     ELSE IF Len(data) = 0 THEN issues
     ELSE IF Len(data) < PerPage THEN issues \o data
     ELSE ReadPages(list, page + 1, failedPage, issues \o data)

\* the pages the loop asks for when none fails
PagesAsked(list) == (Len(list) \div PerPage) + 1

\* fetched = await provider.fetchIssues(owner, name, token, since): every page is
\* answered, or one page is answered with an error status, or the request for a page
\* cannot be made and fetch rejects
FetchIssuesPaged(c) ==
  /\ call[c].pc = "fetch"
  /\ \E list \in Listings(call[c].repo) :
       \E failedPage \in 0..PagesAsked(list), raised \in BOOLEAN :
         /\ raised => failedPage > 0
         /\ pageLog' = [pageLog EXCEPT ![c] = [asked |-> TRUE, since |-> call[c].repo,
                                              failedPage |-> failedPage,
                                              raised |-> raised]]
         /\ IF raised
            THEN call' = [call EXCEPT ![c].pc = "catch", ![c].err = NetworkError,
                                      ![c].raisedIn = "fetch", ![c].since = call[c].repo,
                                      ![c].fetchCalls = 1]
            ELSE LET fetched == ReadPages(list, 1, failedPage, <<>>)
                 IN call' = [call EXCEPT ![c].pc = IF fetched = <<>> THEN "marker"
                                                   ELSE "select",
                                         ![c].since = call[c].repo,
                                         ![c].fetched = fetched, ![c].idx = 1,
                                         ![c].fetchCalls = 1]
  /\ UNCHANGED <<now, lastSyncedAt, issueRows, nextIssueId, syncLog>>
  /\ UNCHANGED <<gh, origin, updateCall>>
  /\ UNCHANGED <<mergeVars, netVars, triageVars, sweepVars, clientVars, raceVars>>

\* an open issue is closed at the origin while no sync runs
OriginEdit(pid) ==
  /\ \A c \in Calls : call[c].pc \in {"idle"} \cup Finished
  /\ origin[pid] # <<>>
  /\ origin[pid][1].state = "open"
  /\ origin' = [origin EXCEPT ![pid] = <<OriginIssue(pid, now, "closed")>>]
  /\ UNCHANGED <<gh, pageLog, updateCall>>
  /\ UNCHANGED <<mergeVars, netVars, syncVars, triageVars, sweepVars, clientVars, raceVars>>

\* the origin holds any of the issues, last updated when the clock starts
PagingInit ==
  /\ acc = EmptyPayload
  /\ existing = EmptyPayload
  /\ incoming = EmptyPayload
  /\ mergePhase = "idle"
  /\ upstream = {}
  /\ refLabels = {}
  /\ opCount = 0
  /\ SyncAtRest
  /\ TriageAtRest
  /\ RaceAtRest
  /\ ClientAtRest
  /\ SweepAtRest
  /\ gh = IdleFetch
  /\ updateCall = IdleUpdate
  /\ pageLog = [c \in Calls |-> NoPages]
  /\ origin \in [ProviderIssueIds -> {<<>>} \cup
                   {<<OriginIssue(pid, 0, "open")>> : pid \in ProviderIssueIds}]
  /\ \A pid \in ProviderIssueIds : origin[pid] # <<>> => origin[pid][1].providerIssueId = pid

\* the owner of r1 syncs it again and again while issues change at the origin
PagingNext ==
  \/ \E c \in Calls : StartSync(c, "r1", repoUser["r1"])
  \/ \E c \in Calls : LookupRepo(c)
  \/ \E c \in Calls : InsertSyncLog(c)
  \/ \E c \in Calls : ResolveToken(c)
  \/ \E c \in Calls : FetchIssuesPaged(c)
  \/ \E c \in Calls : SelectExisting(c)
  \/ \E c \in Calls : WriteIssue(c)
  \/ \E c \in Calls : UpdateMarker(c)
  \/ \E c \in Calls : CompleteLog(c)
  \/ \E c \in Calls : CatchFailure(c)
  \/ \E pid \in ProviderIssueIds : OriginEdit(pid)
  \/ Tick

PagingSpec == PagingInit /\ [][PagingNext]_vars

\* a fetchIssues in which the request for some page failed
PageFailed(c) == pageLog[c].asked /\ pageLog[c].failedPage > 0

\* a page failure is not raised: the call goes on with the pages read so far
PartialIsNotAnError ==
  \A c \in Calls :
    (PageFailed(c) /\ call[c].pc \notin {"idle", "over"}) => call[c].raisedIn # "fetch"

\* a sync whose fetchIssues lost a page and whose other steps went through reports
\* 'completed' with the number of issues of the pages read
PartialReportsCompleted ==
  \A c \in Calls :
    (PageFailed(c) /\ call[c].pc = "returned" /\ call[c].raisedIn = "")
      => (call[c].status = "completed" /\ call[c].issuesFetched = Len(call[c].fetched))

\* the origin issue has a row of repository r1 that holds its current data
HasCurrentRow(rows, i) ==
  \E row \in rows :
    /\ row.repoId = "r1"
    /\ row.providerIssueId = i.providerIssueId
    /\ row.state = i.state
    /\ row.updatedAt = i.updatedAt

\* call c completes with every page read, and the sync before it had completed with
\* a page lost
CatchesUp(c) ==
  /\ c > 1
  /\ call[c].pc = "complete"
  /\ call'[c].pc = "returned"
  /\ pageLog[c].failedPage = 0
  /\ PageFailed(c - 1)
  /\ c - 1 \in DOMAIN syncLog
  /\ syncLog[c - 1].status = "completed"

\* after the catching-up sync every issue updated after the marker the first sync
\* started from has its current row
NextSyncCatchesUp ==
  \A c \in Calls :
    CatchesUp(c) =>
      \A i \in OriginIssues :
        (pageLog[c - 1].since = <<>> \/ i.updatedAt > pageLog[c - 1].since[1])
          => HasCurrentRow(issueRows', i)

\* C22 (as claimed): a failed page request makes fetchIssues return the issues of
\* the pages read so far without raising, syncRepo reports 'completed' with that
\* count, and after the next syncRepo whose page requests all succeed every origin
\* issue updated after the marker the first sync started from has a local row with
\* its current origin data.
C22_NextSyncCatchesUp ==
  /\ [](PartialIsNotAnError /\ PartialReportsCompleted)
  /\ [][NextSyncCatchesUp]_vars

\* the catch-up alone, for page requests answered with an error status
CatchUpAfterErrorStatus == [][NextSyncCatchesUp]_vars

(***************************************************************************)
(* updateIssue of the two adapters, one action per facet of the change.    *)
(* A request is answered 2xx ("ok"), answered with another status          *)
(* ("error"), or cannot be made and fetch rejects ("rejected").            *)
(***************************************************************************)
Providers == {"github", "gitlab"}

Answers == {"ok", "error", "rejected"}

\* the changes updateIssue is called with: each facet absent or present
UpdateChanges ==
  {[EmptyPayload EXCEPT !.state = st, !.labels = l, !.assignees = a] :
     st \in {Undefined, "closed"},
     l \in {NoChange,
            [present |-> TRUE, add |-> <<"bug">>, remove |-> <<>>],
            [present |-> TRUE, add |-> <<>>, remove |-> <<"bug">>],
            [present |-> TRUE, add |-> <<"urgent">>, remove |-> <<"bug">>]},
     a \in {NoChange,
            [present |-> TRUE, add |-> <<"alice">>, remove |-> <<>>],
            [present |-> TRUE, add |-> <<>>, remove |-> <<"alice">>]}}

\* the facets of a change, in the order githubProvider.updateIssue applies them
Facets == <<"state", "labels.add", "labels.remove", "assignees.add", "assignees.remove">>

\* changes.state / changes.labels?.add?.length / ...: the facet is in the change
HasFacet(changes, facet) ==
  CASE facet = "state" -> Truthy(changes.state)
    [] facet = "labels.add" -> Len(changes.labels.add) > 0
    [] facet = "labels.remove" -> Len(changes.labels.remove) > 0
    [] facet = "assignees.add" -> Len(changes.assignees.add) > 0
    [] facet = "assignees.remove" -> Len(changes.assignees.remove) > 0

\* the position after facet number n: the next facet, or the end of the function
AfterFacet(n) == IF n < Len(Facets) THEN Facets[n + 1] ELSE "returned"

FacetNumber(facet) == CHOOSE n \in 1..Len(Facets) : Facets[n] = facet

\* a request of updateIssue: the facets it is made for and how it was answered
Request(facets, answer) == [facets |-> facets, answer |-> answer]

\* provider.updateIssue(owner, name, number, token, changes) is called
UpdateStart(provider, changes) ==
  /\ updateCall.pc \in {"idle", "returned", "threw"}
  /\ updateCall' = [IdleUpdate EXCEPT !.pc = IF provider = "github" THEN Facets[1]
                                           ELSE "gitlab.state",
                                      !.provider = provider, !.changes = changes]
  /\ UNCHANGED <<gh, origin, pageLog>>
  /\ UNCHANGED <<mergeVars, netVars, syncVars, triageVars, sweepVars, clientVars, raceVars>>

\* githubProvider.updateIssue: `if (facet) await ghFetch(...)` for the state, the
\* label additions and the two assignee facets; ghFetch returns the answer whatever
\* its status, a rejected fetch is raised out of updateIssue
GithubFacet(facet) ==
  /\ updateCall.provider = "github"
  /\ updateCall.pc = facet
  /\ facet # "labels.remove"
  /\ IF ~HasFacet(updateCall.changes, facet)
     THEN updateCall' = [updateCall EXCEPT !.pc = AfterFacet(FacetNumber(facet))]
     ELSE \E answer \in Answers :
            updateCall' = [updateCall EXCEPT
                             !.pc = IF answer = "rejected" THEN "threw"
                                    ELSE AfterFacet(FacetNumber(facet)),
                             !.requests = Append(@, Request({facet}, answer))]
  /\ UNCHANGED <<gh, origin, pageLog>>
  /\ UNCHANGED <<mergeVars, netVars, syncVars, triageVars, sweepVars, clientVars, raceVars>>

\* githubProvider.updateIssue: for (const label of changes.labels.remove) await
\* ghFetch(DELETE .../labels/label), one request per label
GithubRemoveLabel ==
  /\ updateCall.provider = "github"
  /\ updateCall.pc = "labels.remove"
  /\ IF updateCall.idx >= Len(updateCall.changes.labels.remove)
     THEN updateCall' = [updateCall EXCEPT !.pc = AfterFacet(FacetNumber("labels.remove")),
                                           !.idx = 0]
     ELSE \E answer \in Answers :
            updateCall' = [updateCall EXCEPT
                             !.pc = IF answer = "rejected" THEN "threw" ELSE @,
                             !.idx = @ + 1,
                             !.requests = Append(@, Request({"labels.remove"}, answer))]
  /\ UNCHANGED <<gh, origin, pageLog>>
  /\ UNCHANGED <<mergeVars, netVars, syncVars, triageVars, sweepVars, clientVars, raceVars>>

\* gitlabProvider.updateIssue: if (changes.state) params.state_event = ...
GitlabState ==
  /\ updateCall.pc = "gitlab.state"
  /\ updateCall' = [updateCall EXCEPT
                      !.pc = "gitlab.labels",
                      !.params = IF Truthy(updateCall.changes.state) THEN {"state"} ELSE {}]
  /\ UNCHANGED <<gh, origin, pageLog>>
  /\ UNCHANGED <<mergeVars, netVars, syncVars, triageVars, sweepVars, clientVars, raceVars>>

\* the facets of a set-valued field that are in the change
SetFacets(changes, field) ==
  {f \in {field \o ".add", field \o ".remove"} : HasFacet(changes, f)}

\* gitlabProvider.updateIssue: with a label or an assignee change the issue is read
\* first; params.labels / params.assignee_ids is set when that read is answered ok.
\* (The look-up of each assignee's user id, whose failure leaves that one user out,
\* is part of this step.)
GitlabRead(field) ==
  /\ updateCall.pc = "gitlab." \o field
  /\ LET next == IF field = "labels" THEN "gitlab.assignees" ELSE "gitlab.put"
     IN IF SetFacets(updateCall.changes, field) = {}
        THEN updateCall' = [updateCall EXCEPT !.pc = next]
        ELSE \E answer \in Answers :
               updateCall' = [updateCall EXCEPT
                                !.pc = IF answer = "rejected" THEN "threw" ELSE next,
                                !.params = IF answer = "ok"
                                           THEN @ \cup SetFacets(updateCall.changes, field)
                                           ELSE @,
                                !.requests =
                                  Append(@, Request(SetFacets(updateCall.changes, field),
                                                    answer))]
  /\ UNCHANGED <<gh, origin, pageLog>>
  /\ UNCHANGED <<mergeVars, netVars, syncVars, triageVars, sweepVars, clientVars, raceVars>>

\* gitlabProvider.updateIssue: if (Object.keys(params).length > 0) await fetch(PUT)
GitlabPut ==
  /\ updateCall.pc = "gitlab.put"
  /\ IF updateCall.params = {}
     THEN updateCall' = [updateCall EXCEPT !.pc = "returned"]
     ELSE \E answer \in Answers :
            updateCall' = [updateCall EXCEPT
                             !.pc = IF answer = "rejected" THEN "threw" ELSE "returned",
                             !.requests = Append(@, Request(updateCall.params, answer))]
  /\ UNCHANGED <<gh, origin, pageLog>>
  /\ UNCHANGED <<mergeVars, netVars, syncVars, triageVars, sweepVars, clientVars, raceVars>>

UpdateInit == SyncInit

UpdateNext ==
  \/ \E provider \in Providers, changes \in UpdateChanges : UpdateStart(provider, changes)
  \/ \E facet \in Elements(Facets) : GithubFacet(facet)
  \/ GithubRemoveLabel
  \/ GitlabState
  \/ \E field \in {"labels", "assignees"} : GitlabRead(field)
  \/ GitlabPut

UpdateSpec == UpdateInit /\ [][UpdateNext]_vars

\* the facets of the changes of the call
FacetsPresent == {f \in Elements(Facets) : HasFacet(updateCall.changes, f)}

\* the facets for which a request went to the origin
FacetsCalled == UNION {updateCall.requests[i].facets : i \in 1..Len(updateCall.requests)}

\* some request of the call was not answered 2xx
SomeRequestFailed ==
  \E i \in 1..Len(updateCall.requests) : updateCall.requests[i].answer # "ok"

\* C23 (as claimed): the facets of a change are applied independently: when the
\* origin call of one facet fails, by an error answer or by a raised network error,
\* the origin calls of all the other facets present in the change are still made.
C23_FacetsAreIndependent ==
  (updateCall.pc \in {"returned", "threw"} /\ SomeRequestFailed)
    => FacetsPresent \subseteq FacetsCalled

\* the same for error answers only: a call that returns has made a request for
\* every facet of the change
ErrorAnswerBlocksNothing ==
  updateCall.pc = "returned" => FacetsCalled = FacetsPresent

(***************************************************************************)
(* Tenancy: two users, each with a repository and a synced issue, call     *)
(* syncRepo, syncAllRepos, pushBatchChanges and PATCH for their own and    *)
(* for each other's repositories and issues.                               *)
(***************************************************************************)
\* the bodies of the requests: a local field, a label change, both
TenancyPayloads ==
  {[EmptyPayload EXCEPT !.priority = "1"], addLabel("urgent"),
   [addLabel("urgent") EXCEPT !.priority = "1"]}

\* the triage row of user u2 for the issue of r2: a priority and a staged label
OthersTriageRow ==
  SetBatchData(SetTriageData(NewTriageRow(1, 2, "u2"), [EmptyPayload EXCEPT !.priority = "2"]),
               mergePendingChanges(EmptyPayload, ProviderFields(addLabel("bug"))))

\* issue 1 is in r1 (user u1), issue 2 in r2 (user u2), who has triaged it; r1 and
\* r2 are enabled for sync and in the same mode; the origin has closed issue 101
\* since it was synced
TenancyInit ==
  /\ acc = EmptyPayload
  /\ existing = EmptyPayload
  /\ incoming = EmptyPayload
  /\ mergePhase = "idle"
  /\ upstream = {}
  /\ refLabels = {}
  /\ opCount = 0
  /\ now = 0
  /\ lastSyncedAt = [r \in RepoIds |-> <<>>]
  /\ issueRows =
       InsertIssueRow(
         InsertIssueRow({}, 1, "r1", [providerIssueId |-> "101", number |-> 1,
                                      updatedAt |-> 0, state |-> "open",
                                      labels |-> <<>>, assignees |-> <<>>]),
         2, "r2", [providerIssueId |-> "102", number |-> 2, updatedAt |-> 0,
                   state |-> "open", labels |-> <<>>, assignees |-> <<>>])
  /\ nextIssueId = 3
  /\ syncLog = <<>>
  /\ call = [c \in Calls |-> IdleCall]
  /\ \E m \in {"live", "batch"} : syncMode = [r \in RepoIds |-> m]
  /\ triageRows = {OthersTriageRow}
  /\ nextTriageId = 2
  /\ lastOp = NoOp
  /\ RaceAtRest
  /\ gh = IdleFetch
  /\ updateCall = IdleUpdate
  /\ pageLog = [c \in Calls |-> NoPages]
  /\ origin = [pid \in ProviderIssueIds |->
                IF pid = "101" THEN <<OriginIssue(pid, 0, "closed")>> ELSE <<>>]
  /\ ClientAtRest
  /\ syncEnabled = [r \in RepoIds |-> r # "r3"]
  /\ sweep = IdleSweep

\* the user on whose behalf the calls are made; the other user's rows are at stake
Tenant == "u1"

\* no syncRepo and no syncAllRepos call is running: calls are made one after another
NothingRuns ==
  /\ \A c \in Calls : call[c].pc \in {"idle"} \cup Finished
  /\ sweep.pc \in {"idle", "returned", "threw"}

\* PATCH /api/issues/:id by the tenant, for the own issue or the other user's
TenancyPatch(id, payload, batch) ==
  /\ NothingRuns
  /\ PatchRequest(Tenant, id, payload, batch)

\* pushBatchChanges(tenant)
TenancyPush ==
  /\ NothingRuns
  /\ Push(Tenant)

\* syncAllRepos(tenant)
TenancySweep ==
  /\ NothingRuns
  /\ StartSweep(Tenant)

\* syncRepo(r2, tenant): the tenant names the repository of the other user
TenancySyncOthers(c) ==
  /\ NothingRuns
  /\ StartSync(c, "r2", Tenant)

TenancyNext ==
  \/ \E id \in RequestedIssueIds, p \in TenancyPayloads, b \in BOOLEAN :
       TenancyPatch(id, p, b)
  \/ TenancyPush
  \/ TenancySweep
  \/ \E c \in Calls : TenancySyncOthers(c)
  \/ SelectUserRepos
  \/ CallSyncRepo
  \/ TakeResult
  \/ ReturnResults
  \/ \E c \in Calls : LookupRepo(c)
  \/ \E c \in Calls : InsertSyncLog(c)
  \/ \E c \in Calls : ResolveToken(c)
  \/ \E c \in Calls : FetchIssuesPaged(c)
  \/ \E c \in Calls : SelectExisting(c)
  \/ \E c \in Calls : WriteIssue(c)
  \/ \E c \in Calls : UpdateMarker(c)
  \/ \E c \in Calls : CompleteLog(c)
  \/ \E c \in Calls : CatchFailure(c)

TenancySpec == TenancyInit /\ [][TenancyNext]_vars

\* the rows that belong to another user than the tenant
ReposOfOthers == {r \in RepoIds : repoUser[r] # Tenant}
IssuesOfOthers(rows) == {row \in rows : repoUser[row.repoId] # Tenant}
TriageOfOthers(rows) == {row \in rows : row.userId # Tenant}

\* a step writes no repository, issue or triage-state row of another user
NoWriteToOthers ==
  /\ IssuesOfOthers(issueRows') = IssuesOfOthers(issueRows)
  /\ TriageOfOthers(triageRows') = TriageOfOthers(triageRows)
  /\ \A r \in ReposOfOthers :
       /\ lastSyncedAt'[r] = lastSyncedAt[r]
       /\ syncMode'[r] = syncMode[r]
       /\ syncEnabled'[r] = syncEnabled[r]

\* every provider call is addressed with rows of the user whose token it carries:
\* updateIssue with the user's issue and repository, fetchIssues with the user's
\* repository
ProviderCallsUseOwnRows ==
  /\ \A i \in 1..Len(lastOp.targets) :
       repoUser[lastOp.targets[i].repoId] = lastOp.targets[i].tokenOf
  /\ \A c \in Calls :
       call[c].pc \in {"logStart", "token", "fetch", "select", "write", "marker",
                       "complete", "catch"}
         => repoUser[call[c].repoId] = call[c].userId

\* no triage row of a user is for an issue of another user's repository
TriageRowsAreForOwnIssues ==
  \A row \in triageRows : \A issue \in issueRows :
    issue.id = row.issueId => repoUser[issue.repoId] = row.userId

StorageUnchanged ==
  UNCHANGED <<issueRows, triageRows, lastSyncedAt, syncLog, syncMode, syncEnabled,
              nextIssueId, nextTriageId>>

\* a PATCH that names an issue of another user is answered 403 and changes nothing
PatchOfOthersIsRefused ==
  \A id \in {issue.id : issue \in IssuesOfOthers(issueRows)} :
    \A p \in TenancyPayloads, b \in BOOLEAN :
      (lastOp'.kind = "patch" /\ lastOp'.payload = p /\ TenancyPatch(id, p, b))
        => (lastOp'.response = "403" /\ lastOp'.targets = <<>> /\ StorageUnchanged)

\* a syncRepo that names a repository of another user ends at the look-up of the
\* repository, with 'failed' if it returns, and changes nothing
SyncOfOthersIsRefused ==
  \A c \in Calls :
    (call[c].pc = "lookup" /\ repoUser[call[c].repoId] # call[c].userId
       /\ call'[c] # call[c])
      => /\ call'[c].pc \in {"returned", "threw"}
         /\ call'[c].pc = "returned" => call'[c].status = "failed"
         /\ StorageUnchanged

\* C24: whatever syncRepo, syncAllRepos, pushBatchChanges and PATCH calls are made on
\* behalf of a user, no repository, issue or triage-state row of another user is
\* written, none is read to build a provider call, and a PATCH or syncRepo that
\* names an issue or repository of another user is refused without a state change.
C24_Tenancy ==
  /\ [](ProviderCallsUseOwnRows /\ TriageRowsAreForOwnIssues)
  /\ [][NoWriteToOthers /\ PatchOfOthersIsRefused /\ SyncOfOthersIsRefused]_vars

\* C24 witness: the user's syncAllRepos has synced r1, the user's syncRepo of the
\* other user's repository was refused, and the user's push sent the staged change of
\* the own issue to the origin, while the other user's staged triage row is as it was.
C24_Witness ==
  /\ sweep.pc = "returned"
  /\ lastSyncedAt["r1"] # <<>>
  /\ \E c \in Calls : call[c].pc = "returned" /\ call[c].repoId = "r2"
                      /\ call[c].error = "Repo not found"
  /\ lastOp.kind = "push"
  /\ lastOp.pushed = 1
  /\ Len(lastOp.targets) = 1
  /\ OthersTriageRow \in triageRows

(***************************************************************************)
(* Claims about the triage_state table.                                    *)
(***************************************************************************)
\* C25 (as claimed): after PATCH requests served one after another there is at most
\* one triage-state row per (issue, user) pair, also when the first request for an
\* issue carries a local field and a provider field and is handled in batch mode.
C25_OneTriageRowPerIssueAndUser ==
  \A row, other \in triageRows :
    (row.issueId = other.issueId /\ row.userId = other.userId) => row.id = other.id

(***************************************************************************)
(* pushBatchChanges one await point at a time, with PATCH requests served  *)
(* between its steps.                                                      *)
(***************************************************************************)
\* PATCH requests counted while a push is in flight
MaxStaged == 2

\* the user who stages and pushes
Pusher == "u1"

\* the label actions the user takes: neither undoes the other
StagedPayloads == {addLabel("urgent"), removeLabel("bug")}

\* the row of the loop: pendingRows[idx]
CurrentRow == pushCall.pendingRows[pushCall.idx]

\* the catch clause, or a `failed++; continue`: on to the next row
NextRowFailed(k) == [k EXCEPT !.pc = "row", !.idx = @ + 1, !.failed = @ + 1, !.issue = <<>>]

\* pendingRows = await select().from(triageState).where(userId and batchPending)
RaceStartPush ==
  /\ pushCall.pc \in {"idle", "returned"}
  /\ LET ids == SortedIds({row.id : row \in PendingRowsOf(triageRows, Pusher)})
     IN pushCall' = [IdlePush EXCEPT !.pc = "row", !.userId = Pusher, !.idx = 1,
                                     !.pendingRows = [i \in 1..Len(ids) |->
                                                        TriageRowById(ids[i])]]
  /\ UNCHANGED <<mergeVars, netVars, syncVars, triageVars, sweepVars, clientVars,
                 originVars>>

\* the loop body up to and including provider.updateIssue: a row without provider
\* changes goes straight to its clearing update; else the issue, the repository and
\* the token are read and the changes the push read at its start are sent
RacePushRow ==
  /\ pushCall.pc = "row"
  /\ pushCall.idx <= Len(pushCall.pendingRows)
  /\ LET issueUpdate == payloadToIssueUpdate(CurrentRow.pendingChanges)
         found == {i \in issueRows : i.id = CurrentRow.issueId}
     IN IF HasNoKeys(issueUpdate)
        THEN pushCall' = [pushCall EXCEPT !.pc = "clear"]
        ELSE \/ pushCall' = NextRowFailed(pushCall)
             \/ /\ found # {} /\ getProviderToken(pushCall.userId) # <<>>
                /\ \/ pushCall' = [NextRowFailed(pushCall) EXCEPT
                                     !.sent = Append(@, issueUpdate)]
                   \/ pushCall' = [pushCall EXCEPT !.pc = "mirror",
                                                   !.issue = <<CHOOSE i \in found : TRUE>>,
                                                   !.sent = Append(@, issueUpdate)]
  /\ UNCHANGED <<mergeVars, netVars, syncVars, triageVars, sweepVars, clientVars,
                 originVars>>

\* update(issues).set(localUpdate).where(id = row.issueId), localUpdate computed from
\* the issue row read before the provider call
RacePushMirror ==
  /\ pushCall.pc = "mirror"
  /\ \/ /\ pushCall' = NextRowFailed(pushCall)
        /\ UNCHANGED issueRows
     \/ /\ LET mirrored == CHOOSE i \in MirrorToIssue({pushCall.issue[1]}, CurrentRow.issueId,
                                                     CurrentRow.pendingChanges) : TRUE
           IN issueRows' = {IF i.id = CurrentRow.issueId
                            THEN [i EXCEPT !.labels = mirrored.labels,
                                           !.assignees = mirrored.assignees,
                                           !.state = mirrored.state]
                            ELSE i : i \in issueRows}
        /\ pushCall' = [pushCall EXCEPT !.pc = "clear"]
  /\ UNCHANGED <<now, lastSyncedAt, nextIssueId, syncLog, call>>
  /\ UNCHANGED <<syncMode, triageRows, nextTriageId, lastOp>>
  /\ UNCHANGED <<mergeVars, netVars, sweepVars, clientVars, originVars>>

\* update(triageState).set({ batchPending: false, pendingChanges: {} }).where(id =
\* row.id); pushed++
RacePushClear ==
  /\ pushCall.pc = "clear"
  /\ \/ /\ pushCall' = NextRowFailed(pushCall)
        /\ UNCHANGED triageRows
     \/ /\ triageRows' = ClearPending(triageRows, CurrentRow.id)
        /\ pushCall' = [pushCall EXCEPT !.pc = "row", !.idx = @ + 1, !.pushed = @ + 1,
                                        !.issue = <<>>]
  /\ UNCHANGED <<syncMode, nextTriageId, lastOp>>
  /\ UNCHANGED <<mergeVars, netVars, syncVars, sweepVars, clientVars, originVars>>

\* return { pushed, failed }
RacePushReturn ==
  /\ pushCall.pc = "row"
  /\ pushCall.idx > Len(pushCall.pendingRows)
  /\ pushCall' = [pushCall EXCEPT !.pc = "returned"]
  /\ UNCHANGED <<mergeVars, netVars, syncVars, triageVars, sweepVars, clientVars,
                 originVars>>

\* the push has read the triage row of the issue and has not cleared it yet
PushHolds(rowId) ==
  /\ pushCall.pc \in {"row", "mirror", "clear"}
  /\ \E i \in pushCall.idx..Len(pushCall.pendingRows) : pushCall.pendingRows[i].id = rowId

\* a PATCH of the user for issue 1 is served, before, during or after a push; the
\* changes it merges into a row the push holds are noted in pushCall.staged
RacePatch(payload) ==
  LET existingTriage == SelectTriage(1, Pusher)
      held == existingTriage # <<>> /\ PushHolds(existingTriage[1])
  IN /\ held => Len(pushCall.staged) < MaxStaged
     /\ Patch(Pusher, 1, payload, FALSE)
     /\ pushCall' = IF held
                    THEN [pushCall EXCEPT
                            !.staged = Append(@, [rowId |-> existingTriage[1],
                                                  payload |-> ProviderFields(payload)])]
                    ELSE pushCall
     /\ UNCHANGED clientVars

\* issue 1 with label bug in repository r1 of the user, in batch mode
RaceInit ==
  /\ acc = EmptyPayload
  /\ existing = EmptyPayload
  /\ incoming = EmptyPayload
  /\ mergePhase = "idle"
  /\ upstream = {}
  /\ refLabels = {}
  /\ opCount = 0
  /\ now = 0
  /\ lastSyncedAt = [r \in RepoIds |-> <<>>]
  /\ issueRows = InsertIssueRow({}, 1, "r1", [providerIssueId |-> "101", number |-> 1,
                                             updatedAt |-> 0, state |-> "open",
                                             labels |-> <<"bug">>, assignees |-> <<>>])
  /\ nextIssueId = 2
  /\ syncLog = <<>>
  /\ call = [c \in Calls |-> IdleCall]
  /\ syncMode = [r \in RepoIds |-> "batch"]
  /\ triageRows = {}
  /\ nextTriageId = 1
  /\ lastOp = NoOp
  /\ RaceAtRest
  /\ OriginAtRest
  /\ ClientAtRest
  /\ SweepAtRest

RaceNext ==
  \/ \E p \in StagedPayloads : RacePatch(p)
  \/ RaceStartPush
  \/ RacePushRow
  \/ RacePushMirror
  \/ RacePushClear
  \/ RacePushReturn

RaceSpec == RaceInit /\ [][RaceNext]_vars

\* the changes hold every item the payload adds or removes, and its state
Carries(changes, payload) ==
  /\ Elements(payload.labels.add) \subseteq Elements(changes.labels.add)
  /\ Elements(payload.labels.remove) \subseteq Elements(changes.labels.remove)
  /\ Elements(payload.assignees.add) \subseteq Elements(changes.assignees.add)
  /\ Elements(payload.assignees.remove) \subseteq Elements(changes.assignees.remove)
  /\ Truthy(payload.state) => changes.state = payload.state

\* the staged change is still on its row, batch-pending
StillPending(s) ==
  \E row \in triageRows :
    row.id = s.rowId /\ row.batchPending /\ Carries(row.pendingChanges, s.payload)

\* the staged change was in a call to the origin
WasSent(s) == \E i \in 1..Len(pushCall.sent) : Carries(pushCall.sent[i], s.payload)

\* C26 (as claimed): a change that a PATCH merges into a row after the running push
\* has read the row and before the push clears it is, once both have returned,
\* either still pending on the row or has been sent to the origin.
C26_StagedDuringPushIsNotLost ==
  pushCall.pc = "returned" =>
    \A i \in 1..Len(pushCall.staged) :
      StillPending(pushCall.staged[i]) \/ WasSent(pushCall.staged[i])

(***************************************************************************)
(* Two triage actions in flight at once: the user takes a second action    *)
(* before the write of the first has settled.                              *)
(***************************************************************************)
\* the actions of the session, both of which may be unsettled at the same time
InFlightMutations == 2

\* the first fetch of list k, before the user acts on it
InitialFetch(k) ==
  /\ mutationId = 0
  /\ Refetch(k)

\* triage.mutate(input) while an earlier, different action may still be in flight
InFlightMutate(input) ==
  /\ \A m \in mutations : m.input # input
  /\ StartMutationWithin(input, InFlightMutations, InFlightMutations)
  /\ UNCHANGED <<undoStack, toasts, undoLog>>
  /\ UNCHANGED <<mergeVars, netVars, syncVars, triageVars, sweepVars, originVars, raceVars>>

\* the second action is taken only while the first is unsettled
SecondOverlapsFirst(input) ==
  /\ mutationId = 0 \/ mutations # {}
  /\ InFlightMutate(input)

InFlightNext ==
  \/ \E k \in ViewKeys : InitialFetch(k)
  \/ \E input \in ClientInputs : SecondOverlapsFirst(input)
  \/ \E id \in MutationIds : ServerHandles(id)
  \/ \E id \in MutationIds : FetchFails(id)
  \/ \E id \in MutationIds : OnError(id)
  \/ \E id \in MutationIds : OnSuccess(id)

InFlightSpec == ClientInit /\ [][InFlightNext]_vars

\* both actions have settled: one with onError, the other, B, with onSuccess, which
\* pushed it to the undo store
OneFailedOtherSucceeded ==
  /\ mutationId = InFlightMutations /\ mutations = {}
  /\ toasts.error = 1
  /\ Len(undoLog) = 1 /\ undoLog[1].op = "push"

\* the labels of issue 1 in storage, which a staged change leaves alone
StoredLabels == (CHOOSE row \in issueRows : row.id = 1).labels

\* list k, if it is loaded and shows the issue, shows it with these labels
ViewShows(k, labels) ==
  (views[k].loaded /\ views[k].list # <<>>) =>
    Elements(views[k].list[1].labels) = Elements(labels)

\* C27 (as claimed): with actions A and then B in flight together, A's write failing
\* and B's succeeding, the cached lists show, once both have settled and before any
\* refetch, the issue with B's optimistic change and without A's.
C27_RollbackKeepsLaterAction ==
  OneFailedOtherSucceeded =>
    \A k \in ViewKeys :
      ViewShows(k, MirrorSetChange(StoredLabels, undoLog[1].action.payload.labels))

(***************************************************************************)
(* Claim about the undo of a staged action.                                *)
(***************************************************************************)
\* mutation m is the one the undo key started
IsUndo(m) == m.input.description = "Undid last action"

\* in this step the handler answered the PATCH of mutation m with success
WriteSucceeds(m) ==
  /\ m \in mutations /\ m.pc = "pending"
  /\ mutations' = (mutations \ {m}) \cup {[m EXCEPT !.pc = "ok"]}
  /\ lastOp'.kind = "patch" /\ lastOp'.response = "200"

\* no pending payload of the user for the issue adds or removes any of the items
NoNetLabelChange(rows, userId, issueId, items) ==
  \A row \in rows :
    (row.userId = userId /\ row.issueId = issueId) =>
      /\ items \cap Elements(row.pendingChanges.labels.add) = {}
      /\ items \cap Elements(row.pendingChanges.labels.remove) = {}

\* the labels the undone action added or removed
UndoneLabels(m) ==
  Elements(m.input.previousPayload.labels.add)
    \cup Elements(m.input.previousPayload.labels.remove)

\* C28 (as claimed): when the undo of a label action that was staged with the batch
\* flag succeeds, the pending changes of the issue hold the label in neither add nor
\* remove and the undo wrote nothing to the origin, whatever the stored sync mode.
C28_UndoCancelsStagedAction ==
  [][\A m \in mutations :
       (IsUndo(m) /\ WriteSucceeds(m))
         => /\ lastOp'.sent = <<>>
            /\ NoNetLabelChange(triageRows', ClientUser, m.input.issueId,
                                UndoneLabels(m))]_vars

(***************************************************************************)
(* Claim about the batch-pending flag and the pending payload.             *)
(***************************************************************************)
\* the payload has a labels, an assignees or a state entry
HasProviderEntry(changes) ==
  changes.labels.present \/ changes.assignees.present \/ changes.state # Undefined

\* C29: after any sequence of PATCH requests and pushes, a triage row that is not
\* batch-pending has an empty pending payload, and a row that is batch-pending has
\* a payload with a labels, an assignees or a state entry.
C29_FlagMatchesPayload ==
  \A row \in triageRows :
    /\ ~row.batchPending => row.pendingChanges = EmptyPayload
    /\ row.batchPending => HasProviderEntry(row.pendingChanges)

\* C29 witness: after staged changes, a push has cleared one row, whose payload is
\* empty, and failed on another, which is still pending with its labels entry.
C29_Witness ==
  /\ lastOp.kind = "push" /\ lastOp.pushed >= 1 /\ lastOp.failed >= 1
  /\ \E flushed, kept \in triageRows :
       /\ ~flushed.batchPending /\ flushed.pendingChanges = EmptyPayload
       /\ flushed.id \in Elements(lastOp.processed)
       /\ kept.batchPending /\ kept.pendingChanges.labels.present

(***************************************************************************)
(* Claim about a payload that is merged twice.                             *)
(***************************************************************************)
\* the same scalar values and the same add and remove sets
SameChanges(a, b) ==
  /\ a.priority = b.priority /\ a.snoozedUntil = b.snoozedUntil
  /\ a.dismissed = b.dismissed /\ a.state = b.state
  /\ a.labels.present = b.labels.present /\ a.assignees.present = b.assignees.present
  /\ Elements(a.labels.add) = Elements(b.labels.add)
  /\ Elements(a.labels.remove) = Elements(b.labels.remove)
  /\ Elements(a.assignees.add) = Elements(b.assignees.add)
  /\ Elements(a.assignees.remove) = Elements(b.assignees.remove)

\* C30 (as claimed): merging a payload a second time changes nothing: for every
\* accumulator reachable from the empty one and every payload p,
\* merge(merge(acc, p), p) has the scalar values and the add and remove sets of
\* merge(acc, p).
C30_MergeTwiceIsMergeOnce ==
  mergePhase = "merged" => SameChanges(mergePendingChanges(acc, incoming), acc)

====
